---- MODULE Spec2Model ----
(***************************************************************************)
(* Terminal synchronisation logic of the additional Netmiko drivers        *)
(* (Adtran, AudioCodes, Bash server, Cisco ASA, Fortinet).                 *)
(*                                                                         *)
(* Text is a sequence of one-character strings, so that strip, split and   *)
(* substring tests are computed, not assumed.  The device is the           *)
(* environment: every channel read returns one text of a finite            *)
(* vocabulary, chosen nondeterministically.                                *)
(***************************************************************************)
EXTENDS Integers, Sequences, FiniteSets, TLC

VARIABLES
    \* ---- find_prompt ----
    driver,        \* class whose find_prompt runs
    fp_pc,         \* position in find_prompt
    loops,         \* outer loop counter
    count,         \* inner loop counter
    prompt,        \* local variable prompt
    raw,           \* text returned by the most recent read_channel()
    sleep_time,    \* local variable sleep_time, in tenths of a second
    fp_writes,     \* number of write_channel(RETURN) calls so far
    innerWrites,   \* write_channel(RETURN) calls of the current inner loop
    innerReads,    \* read_channel() calls of the current inner loop
    emptyReads,    \* empty inner reads so far (bounded by MaxEmpty)
    fp_result,     \* "none" | "return" | "ValueError"
    \* ---- set_base_prompt ----
    bp_class,      \* class whose set_base_prompt runs
    bp_prompt,     \* the prompt find_prompt() returned to the last call
    base_prompt,   \* self.base_prompt
    bp_result,     \* "none" | "return" | "ValueError" | "IndexError"
    \* ---- _read_channel_timing_or_error ----
    rt_pc,         \* "loop" | "confirm" | "done"
    rt_i,          \* loop counter i
    rt_max_loops,  \* argument max_loops (after the default adjustment)
    rt_pattern,    \* argument pattern
    channel_data,  \* local variable channel_data
    rt_log,        \* every read_channel() result of the call, in order
    rt_result,     \* "none" | "return" | "ValueError"
    \* ---- AdtranOSBase.enable ----
    en_pc,         \* "check1" | "read1" | "read2" | "read3" | "check2" | "done"
    en_output,     \* local variable output
    en_writes,     \* what write_channel() was given, in order
    en_reads,      \* the texts the reads of the password exchange returned
    en_checks,     \* the results of the check_enable_mode() calls, in order
    en_result,     \* "none" | "return" | "ValueError" | "NetmikoTimeoutException"
    \* ---- send_config_set ----
    cf_pc,         \* "start" | "cmds" | "prompt" | "gather" | "exit" | "done"
    cf_args,       \* the arguments and session flags of the call
    cf_idx,        \* index of the next command of the batch
    cf_output,     \* local variable output
    cf_new_output, \* local variable new_output (echo-verified strategy)
    cf_writes,     \* what was written to the channel, in order
    cf_outs,       \* the device output that each written command resulted in
    cf_blamed,     \* the command the ConfigInvalidException names
    cf_pending,    \* device output not read yet (echo-verified strategy)
    cf_exit_out,   \* what exit_config_mode() returned to the call
    cf_result,     \* "none" | "return" | an exception name
    \* ---- mode probes and transitions ----
    md_class,      \* class of the session
    md_mode,       \* the device's mode: "user" | "priv" | "config"
    md_star,       \* the device's prompt variant (pending changes / read-only)
    md_base,       \* self.base_prompt of the session
    md_op,         \* the operation that runs or ran last
    md_pc,         \* "idle" | "write" | "check2"
    md_mode0,      \* the device's mode when the current call started
    md_output,     \* local variable output; at the end the value returned
    md_writes,     \* what the current call wrote to the channel, in order
    md_checks,     \* the results of the call's check_config_mode(), in order
    md_result,     \* "none" | "return" | an exception name
    md_log,        \* the completed calls of the session, in order
    \* ---- sessions of one process ----
    kx_driver,     \* the driver class of each session
    kx_pc,         \* each session: "new" | "params" | "connected"
    kx_used,       \* the key-exchange preference each transport connected with
    Transport_preferred_kex, \* class attribute paramiko.Transport._preferred_kex
    \* ---- cleanup ----
    cl_class,      \* class whose cleanup runs
    cl_pc,         \* "start" | "paging" | "pagingexit" | "try" | "final" | "done"
    cl_depth,      \* how many configuration levels deep the device is
    cl_idx,        \* index of the next paging command (FortinetSSH)
    cl_writes,     \* what was written to the channel, in order
    cl_caught,     \* the exception the try block swallowed, or "none"
    cl_fin,        \* self._session_log_fin
    cl_result,     \* "none" | "return" | an exception name
    \* ---- CiscoAsaSSH.asa_login ----
    al_username,   \* self.username
    al_pc,         \* "loop" | "done"
    al_i,          \* i
    al_output,     \* the last read
    al_nreads,     \* how many times the channel was read
    al_nwrites,    \* how many times the channel was written
    al_last_write, \* the last text written
    al_result,     \* "none" | "return" | "NetmikoAuthenticationException"
    \* ---- CiscoAsaSSH commands and set_base_prompt ----
    as_ctx,        \* the security context the device is in
    as_cfg,        \* TRUE when the device is in configuration mode
    as_base,       \* self.base_prompt
    as_op,         \* the method called
    as_cmd,        \* command_string
    as_pc,         \* "idle" | "super" | "setbase" | "done"
    as_base0,      \* base_prompt when the call started
    as_cfg0,       \* as_cfg when set_base_prompt started
    as_log,        \* what the call did, in order
    as_ret,        \* what set_base_prompt returned
    as_result,     \* "none" | "return" | an exception name
    as_calls,      \* calls made so far
    \* ---- CiscoAsaSSH.session_preparation ----
    sp_secret,           \* TRUE when self.secret is set
    allow_auto_change,   \* self.allow_auto_change
    global_cmd_verify,   \* self.global_cmd_verify: "None" | "True" | "False"
    sp_pc,               \* the statement session_preparation is at
    sp_width,            \* "no" | "set" | "ValueError": the terminal width 511 config set
    sp_steps,            \* the calls made, in order
    sp_result,           \* "none" | "return" | an exception name
    \* ---- AudiocodeSSH.telnet_login ----
    tl_pc,         \* "loop" | "user_read" | "pwd_read" | "dialog" | "done"
    tl_count,      \* count
    tl_output,     \* output
    return_msg,    \* return_msg
    tl_writes,     \* what was written to the channel, in order
    tl_closed,     \* TRUE once self.remote_conn.close() was called
    tl_result,     \* "none" | "return" | the name of the exception raised
    \* ---- AudiocodeBaseSSH.send_config_set ----
    bs_args,       \* the arguments of the call
    bs_super,      \* the arguments handed to the inherited send_config_set
    bs_pc,         \* "call" | "entry" | "cmds" | "exit" | "done"
    bs_idx,        \* index of the next command
    bs_ops,        \* the channel operations made, in order
    bs_result,     \* "none" | "return" | "ValueError"
    \* ---- check_config_mode of AudiocodeSSH and AudiocodeBaseSSH ----
    cc_check_string,  \* check_string
    cc_pattern,       \* pattern
    cc_text,          \* what the device sends after the RETURN
    cc_ssh,           \* what AudiocodeSSH.check_config_mode did and gave
    cc_base,          \* what AudiocodeBaseSSH.check_config_mode did and gave
    \* ---- AudiocodeSSH.reload_device ----
    rd_attr,          \* what the name reload_device resolves to on the session
    rd_saved,         \* self.reload_save, self.cmd_save, self.cmd_no_save
    rd_enabled,       \* the session is in enable mode
    rd_calls,         \* calls of conn.reload_device(...) made so far
    rd_args,          \* arguments of the most recent call
    rd_sent,          \* what the calls sent, in order
    rd_result,        \* outcome of the most recent call
    rd_output,        \* what the most recent call returned
    \* ---- BashServer.set_base_prompt ----
    bb_calls,         \* calls of set_base_prompt made so far
    bb_prompt,        \* what find_prompt returned to the most recent call
    bb_base,          \* self.base_prompt
    bb_result,        \* outcome of the most recent call
    bb_ret,           \* what the most recent call returned
    \* ---- FortinetSSH session: output mode of the console ----
    fo_pc,            \* position in the session
    fo_vdom,          \* the device has virtual domains enabled
    fo_perm,          \* the role of the login may configure the console
    fo_banner,        \* the device shows a post-login banner to accept
    fo_mode0,         \* output mode of the console before the session
    fo_mode,          \* output mode of the console
    fo_ctx,           \* configuration contexts the device is in, outermost first
    fo_pending,       \* output mode set in the console context, not yet saved
    fo_output_mode,   \* self._output_mode
    fo_idx,           \* next command of the paging command list
    fo_writes         \* what the session has written

fp_vars == <<driver, fp_pc, loops, count, prompt, raw, sleep_time, fp_writes,
             innerWrites, innerReads, emptyReads, fp_result>>

bp_vars == <<bp_class, bp_prompt, base_prompt, bp_result>>

rt_vars == <<rt_pc, rt_i, rt_max_loops, rt_pattern, channel_data, rt_log,
             rt_result>>

en_vars == <<en_pc, en_output, en_writes, en_reads, en_checks, en_result>>

cf_vars == <<cf_pc, cf_args, cf_idx, cf_output, cf_new_output, cf_writes,
             cf_outs, cf_blamed, cf_pending, cf_exit_out, cf_result>>

md_vars == <<md_class, md_mode, md_star, md_base, md_op, md_pc, md_mode0,
             md_output, md_writes, md_checks, md_result, md_log>>

kx_vars == <<kx_driver, kx_pc, kx_used, Transport_preferred_kex>>

cl_vars == <<cl_class, cl_pc, cl_depth, cl_idx, cl_writes, cl_caught, cl_fin, cl_result>>

al_vars == <<al_username, al_pc, al_i, al_output, al_nreads, al_nwrites, al_last_write,
             al_result>>

as_vars == <<as_ctx, as_cfg, as_base, as_op, as_cmd, as_pc, as_base0, as_cfg0,
             as_log, as_ret, as_result, as_calls>>

sp_vars == <<sp_secret, allow_auto_change, global_cmd_verify, sp_pc, sp_width,
             sp_steps, sp_result>>

tl_vars == <<tl_pc, tl_count, tl_output, return_msg, tl_writes, tl_closed,
             tl_result>>

bs_vars == <<bs_args, bs_super, bs_pc, bs_idx, bs_ops, bs_result>>

cc_vars == <<cc_check_string, cc_pattern, cc_text, cc_ssh, cc_base>>

rd_vars == <<rd_attr, rd_saved, rd_enabled, rd_calls, rd_args, rd_sent, rd_result, rd_output>>

bb_vars == <<bb_calls, bb_prompt, bb_base, bb_result, bb_ret>>

fo_vars == <<fo_pc, fo_vdom, fo_perm, fo_banner, fo_mode0, fo_mode, fo_ctx, fo_pending, fo_output_mode, fo_idx, fo_writes>>

\* the variables of the other operations stay as they are during find_prompt
FP_Frame == UNCHANGED <<bp_vars, rt_vars, en_vars, cf_vars, md_vars, kx_vars, cl_vars, al_vars, as_vars, sp_vars, tl_vars, bs_vars, cc_vars, rd_vars, bb_vars, fo_vars>>

\* ... during set_base_prompt
BP_Frame == UNCHANGED <<fp_vars, rt_vars, en_vars, cf_vars, md_vars, kx_vars, cl_vars, al_vars, as_vars, sp_vars, tl_vars, bs_vars, cc_vars, rd_vars, bb_vars, fo_vars>>

\* ... during _read_channel_timing_or_error
RT_Frame == UNCHANGED <<fp_vars, bp_vars, en_vars, cf_vars, md_vars, kx_vars, cl_vars, al_vars, as_vars, sp_vars, tl_vars, bs_vars, cc_vars, rd_vars, bb_vars, fo_vars>>

\* ... during enable
EN_Frame == UNCHANGED <<fp_vars, bp_vars, rt_vars, cf_vars, md_vars, kx_vars, cl_vars, al_vars, as_vars, sp_vars, tl_vars, bs_vars, cc_vars, rd_vars, bb_vars, fo_vars>>

\* ... and during send_config_set
CF_Frame == UNCHANGED <<fp_vars, bp_vars, rt_vars, en_vars, md_vars, kx_vars, cl_vars, al_vars, as_vars, sp_vars, tl_vars, bs_vars, cc_vars, rd_vars, bb_vars, fo_vars>>

\* ... and during the mode probes and transitions
MD_Frame == UNCHANGED <<fp_vars, bp_vars, rt_vars, en_vars, cf_vars, kx_vars, cl_vars, al_vars, as_vars, sp_vars, tl_vars, bs_vars, cc_vars, rd_vars, bb_vars, fo_vars>>

\* ... and while sessions are set up
KX_Frame == UNCHANGED <<fp_vars, bp_vars, rt_vars, en_vars, cf_vars, md_vars, cl_vars, al_vars, as_vars, sp_vars, tl_vars, bs_vars, cc_vars, rd_vars, bb_vars, fo_vars>>

\* ... and during cleanup
CL_Frame == UNCHANGED <<fp_vars, bp_vars, rt_vars, en_vars, cf_vars, md_vars, kx_vars, al_vars, as_vars, sp_vars, tl_vars, bs_vars, cc_vars, rd_vars, bb_vars, fo_vars>>

\* ... and during asa_login
AL_Frame == UNCHANGED <<fp_vars, bp_vars, rt_vars, en_vars, cf_vars, md_vars, kx_vars, cl_vars, as_vars, sp_vars, tl_vars, bs_vars, cc_vars, rd_vars, bb_vars, fo_vars>>

\* ... and during the commands of CiscoAsaSSH
AS_Frame == UNCHANGED <<fp_vars, bp_vars, rt_vars, en_vars, cf_vars, md_vars, kx_vars, cl_vars, al_vars, sp_vars, tl_vars, bs_vars, cc_vars, rd_vars, bb_vars, fo_vars>>

\* ... and during session_preparation of CiscoAsaSSH
SP_Frame == UNCHANGED <<fp_vars, bp_vars, rt_vars, en_vars, cf_vars, md_vars, kx_vars, cl_vars, al_vars, as_vars, tl_vars, bs_vars, cc_vars, rd_vars, bb_vars, fo_vars>>

\* ... and during telnet_login
TL_Frame == UNCHANGED <<fp_vars, bp_vars, rt_vars, en_vars, cf_vars, md_vars, kx_vars, cl_vars, al_vars, as_vars, sp_vars, bs_vars, cc_vars, rd_vars, bb_vars, fo_vars>>

\* ... and during send_config_set of AudiocodeBaseSSH
BS_Frame == UNCHANGED <<fp_vars, bp_vars, rt_vars, en_vars, cf_vars, md_vars, kx_vars, cl_vars, al_vars, as_vars, sp_vars, tl_vars, cc_vars, rd_vars, bb_vars, fo_vars>>

\* ... and during the check_config_mode comparison
CC_Frame == UNCHANGED <<fp_vars, bp_vars, rt_vars, en_vars, cf_vars, md_vars, kx_vars, cl_vars, al_vars, as_vars, sp_vars, tl_vars, bs_vars, rd_vars, bb_vars, fo_vars>>

\* ... and during reload_device
RD_Frame == UNCHANGED <<fp_vars, bp_vars, rt_vars, en_vars, cf_vars, md_vars, kx_vars, cl_vars, al_vars, as_vars, sp_vars, tl_vars, bs_vars, cc_vars, bb_vars, fo_vars>>

\* ... and during the Bash set_base_prompt
BB_Frame == UNCHANGED <<fp_vars, bp_vars, rt_vars, en_vars, cf_vars, md_vars, kx_vars, cl_vars, al_vars, as_vars, sp_vars, tl_vars, bs_vars, cc_vars, rd_vars, fo_vars>>

\* ... and during the Fortinet session
FO_Frame == UNCHANGED <<fp_vars, bp_vars, rt_vars, en_vars, cf_vars, md_vars, kx_vars, cl_vars, al_vars, as_vars, sp_vars, tl_vars, bs_vars, cc_vars, rd_vars, bb_vars>>

vars == <<fp_vars, bp_vars, rt_vars, en_vars, cf_vars, md_vars, kx_vars, cl_vars, al_vars, as_vars, sp_vars, tl_vars, bs_vars, cc_vars, rd_vars, bb_vars, fo_vars>>

----------------------------------------------------------------------------
(* Text helpers *)

\* Python str.strip() whitespace.
IsSpace(c) == c \in {" ", "\t", "\n", "\r"}

RECURSIVE LStrip(_)
LStrip(s) == IF s # <<>> /\ IsSpace(Head(s)) THEN LStrip(Tail(s)) ELSE s

RECURSIVE RStrip(_)
RStrip(s) ==
    IF s # <<>> /\ IsSpace(s[Len(s)]) THEN RStrip(SubSeq(s, 1, Len(s) - 1)) ELSE s

\* str.strip()
Strip(s) == RStrip(LStrip(s))

\* Python "sub in s"
Contains(s, sub) ==
    \E i \in 0..(Len(s) - Len(sub)) : SubSeq(s, i + 1, i + Len(sub)) = sub

\* s.endswith(suf)
EndsWith(s, suf) ==
    Len(suf) <= Len(s) /\ SubSeq(s, Len(s) - Len(suf) + 1, Len(s)) = suf

\* number of characters the newline pattern (\r\r\r\n|\r\r\n|\r\n|\n\r)
\* matches at position i of s, or 1 when it does not match there
NewlineLen(s, i) ==
    IF i + 3 <= Len(s) /\ SubSeq(s, i, i + 3) = <<"\r", "\r", "\r", "\n">> THEN 4
    ELSE IF i + 2 <= Len(s) /\ SubSeq(s, i, i + 2) = <<"\r", "\r", "\n">> THEN 3
    ELSE IF i + 1 <= Len(s)
            /\ SubSeq(s, i, i + 1) \in {<<"\r", "\n">>, <<"\n", "\r">>} THEN 2
    ELSE 1

\* BaseConnection.normalize_linefeeds with RESPONSE_RETURN = "\n":
\* (\r\r\r\n|\r\r\n|\r\n|\n\r) -> \n, scanning left to right, then every
\* remaining \r -> \n.  The text up to the next \r or \n is copied as it is.
RECURSIVE normalize_linefeeds(_)
normalize_linefeeds(s) ==
    LET breaks == {i \in 1..Len(s) : s[i] \in {"\r", "\n"}} IN
    IF breaks = {} THEN s
    ELSE LET i == CHOOSE x \in breaks : \A y \in breaks : x <= y IN
         SubSeq(s, 1, i - 1) \o <<"\n">>
            \o normalize_linefeeds(SubSeq(s, i + NewlineLen(s, i), Len(s)))

\* s.split(RESPONSE_RETURN)[-1]: what follows the last "\n"
LastLine(s) ==
    LET breaks == {i \in 1..Len(s) : s[i] = "\n"} IN
    IF breaks = {} THEN s
    ELSE LET i == CHOOSE x \in breaks : \A y \in breaks : y <= x IN
         SubSeq(s, i + 1, Len(s))

\* "".join(parts): the texts of a sequence, concatenated in order
RECURSIVE Flatten(_)
Flatten(log) == IF log = <<>> THEN <<>> ELSE Head(log) \o Flatten(Tail(log))

----------------------------------------------------------------------------
(* Device vocabulary for the prompt probes *)

T_empty    == <<>>
T_newline  == <<"\r", "\n">>
T_example  == <<"\r", "\n", "l", "e", "a", "d", "i", "n", "g", " ", "n", "o", "i",
                "s", "e", "\r", "\n", "h", "o", "s", "t", "n", "a", "m", "e", "#">>
T_noise    == <<"n", "o", "i", "s", "e">>
T_faillog  == <<"F", "a", "i", "l", "u", "r", "e", " ", "-", ">">>
T_config   == <<"h", "o", "s", "t", "(", "c", "o", "n", "f", "i", "g", ")", "#">>
T_user     == <<"h", "o", "s", "t", ">">>
T_fortivd  == <<"f", "w", " ", "(", "v", "d", "o", "m", ")", " ", "#">>
T_forti    == <<"f", "w", " ", "$">>
T_bash     == <<"u", "@", "h", " ", "~", "]", "$">>
T_shell    == <<"/", ">">>
T_hostname == <<"h", "o", "s", "t", "n", "a", "m", "e", "#">>

DeviceTexts ==
    {T_empty, T_newline, T_example, T_noise, T_faillog, T_config, T_user,
     T_fortivd, T_forti, T_bash, T_shell}

M_Failure == <<"F", "a", "i", "l", "u", "r", "e">>
M_config  == <<"c", "o", "n", "f", "i", "g">>
M_fortih  == <<")", " ", "#">>
M_fortid  == <<")", " ", "$">>

Drivers ==
    {"AdtranOSBase", "AudiocodeBaseSSH", "AudiocodeShellSSH", "BashServer",
     "CiscoAsaSSH", "FortinetSSH"}

\* Bound on the number of empty inner reads the device produces in one call.
MaxEmpty == 14

----------------------------------------------------------------------------
(* find_prompt, per driver *)

\* max_loops of the outer while loop
max_loops(d) == IF d = "AudiocodeBaseSSH" THEN 10 ELSE 20

\* the value of loops at which "Unable to find prompt" is raised in the loop
raise_at(d) == IF d = "AudiocodeBaseSSH" THEN 19 ELSE 20

\* the bound of the inner loop: while count <= 12 and not prompt
inner_max(d) == 12

\* the elif condition under which the outer loop breaks
\* (Python: `a and b and c or d` is `(a and b and c) or d`)
ValidPrompt(d, p) ==
    CASE d = "AdtranOSBase" ->
            \/ (/\ ~Contains(p, M_Failure)
                /\ ~Contains(p, M_config)
                /\ Contains(p, <<"#">>))
            \/ Contains(p, <<">">>)
      [] d = "AudiocodeBaseSSH" ->
            Contains(p, <<"#">>) \/ Contains(p, <<">">>)
      [] d = "AudiocodeShellSSH" ->
            Contains(p, <<"/", ">">>)
      [] d = "BashServer" ->
            Contains(p, <<"~", "]">>) \/ Contains(p, <<"~", ">">>)
      [] d = "CiscoAsaSSH" ->
            /\ ~Contains(p, M_config)
            /\ (Contains(p, <<"#">>) \/ Contains(p, <<">">>))
      [] d = "FortinetSSH" ->
            /\ ~Contains(p, M_fortih) /\ ~Contains(p, M_fortid)
            /\ (Contains(p, <<"#">>) \/ Contains(p, <<"$">>))

\* mutant of TakeLastLine: the split that keeps only the last line is left out
TakeWholeText(p) == Strip(normalize_linefeeds(p))

\* prompt = normalize_linefeeds(prompt); prompt.split("\n")[-1]; prompt.strip()
TakeLastLine(p) == Strip(LastLine(normalize_linefeeds(p)))

\* sleep_time after one empty inner read (tenths of a second)
NextSleep(st) == IF st <= 30 THEN st * 2 ELSE st + 10

\* delay_factor = select_delay_factor(delay_factor); clear_buffer();
\* write_channel(RETURN); sleep_time = delay_factor * 0.1; loops = 0
FP_Start ==
    /\ fp_pc = "start"
    /\ fp_pc' = "outer"
    /\ loops' = 0
    /\ fp_writes' = fp_writes + 1
    /\ UNCHANGED <<driver, count, prompt, raw, sleep_time, innerWrites,
                   innerReads, emptyReads, fp_result>>
    /\ FP_Frame

\* while loops <= max_loops: prompt = read_channel().strip(); count = 0
FP_OuterRead(t) ==
    /\ fp_pc = "outer"
    /\ loops <= max_loops(driver)
    /\ raw' = t
    /\ prompt' = Strip(t)
    /\ count' = 0
    /\ innerWrites' = 0
    /\ innerReads' = 0
    /\ fp_pc' = "inner"
    /\ UNCHANGED <<driver, loops, sleep_time, fp_writes, emptyReads, fp_result>>
    /\ FP_Frame

\* while count <= 12 and not prompt: one pass of the inner loop
FP_InnerRead(t) ==
    /\ fp_pc = "inner"
    /\ count <= inner_max(driver) /\ prompt = <<>>
    /\ Strip(t) = <<>> => emptyReads < MaxEmpty
    /\ raw' = t
    /\ prompt' = Strip(t)
    /\ innerReads' = innerReads + 1
    /\ IF Strip(t) = <<>>
         THEN /\ fp_writes' = fp_writes + 1
              /\ innerWrites' = innerWrites + 1
              /\ sleep_time' = NextSleep(sleep_time)
              /\ emptyReads' = emptyReads + 1
         ELSE UNCHANGED <<fp_writes, innerWrites, sleep_time, emptyReads>>
    /\ count' = count + 1
    /\ UNCHANGED <<driver, fp_pc, loops, fp_result>>
    /\ FP_Frame

\* after the inner loop: take the last line, then raise / break / retry
FP_Validate ==
    /\ fp_pc = "inner"
    /\ ~(count <= inner_max(driver) /\ prompt = <<>>)
    /\ prompt' = TakeLastLine(prompt)
    /\ IF loops = raise_at(driver)
         THEN /\ fp_result' = "ValueError"
              /\ fp_pc' = "done"
              /\ UNCHANGED <<loops, fp_writes>>
         ELSE IF ValidPrompt(driver, prompt')
         THEN /\ fp_pc' = "after"
              /\ UNCHANGED <<loops, fp_writes, fp_result>>
         ELSE /\ fp_writes' = fp_writes + 1
              /\ loops' = loops + 1
              /\ fp_pc' = "outer"
              /\ UNCHANGED fp_result
    /\ UNCHANGED <<driver, count, raw, sleep_time, innerWrites, innerReads,
                   emptyReads>>
    /\ FP_Frame

\* the while condition fails: fall out of the loop
FP_Exhausted ==
    /\ fp_pc = "outer"
    /\ loops > max_loops(driver)
    /\ fp_pc' = "after"
    /\ UNCHANGED <<driver, loops, count, prompt, raw, sleep_time, fp_writes,
                   innerWrites, innerReads, emptyReads, fp_result>>
    /\ FP_Frame

\* if not prompt: raise ValueError; clear_buffer(); return prompt
FP_Return ==
    /\ fp_pc = "after"
    /\ fp_result' = IF prompt = <<>> THEN "ValueError" ELSE "return"
    /\ fp_pc' = "done"
    /\ UNCHANGED <<driver, loops, count, prompt, raw, sleep_time, fp_writes,
                   innerWrites, innerReads, emptyReads>>
    /\ FP_Frame

FPIdle ==
    /\ driver = "none" /\ fp_pc = "idle" /\ loops = 0 /\ count = 0
    /\ prompt = <<>> /\ raw = <<>> /\ sleep_time = 0 /\ fp_writes = 0
    /\ innerWrites = 0 /\ innerReads = 0 /\ emptyReads = 0
    /\ fp_result = "none"

BPIdle ==
    /\ bp_class = "none" /\ bp_prompt = <<>> /\ base_prompt = <<>>
    /\ bp_result = "none"

RTIdle ==
    /\ rt_pc = "idle" /\ rt_i = 0 /\ rt_max_loops = 0 /\ rt_pattern = <<>>
    /\ channel_data = <<>> /\ rt_log = <<>> /\ rt_result = "none"

ENIdle ==
    /\ en_pc = "idle" /\ en_output = <<>> /\ en_writes = <<>>
    /\ en_reads = <<>> /\ en_checks = <<>> /\ en_result = "none"

CFIdle ==
    /\ cf_pc = "idle" /\ cf_args = <<>> /\ cf_idx = 0 /\ cf_output = <<>>
    /\ cf_new_output = <<>> /\ cf_writes = <<>> /\ cf_outs = <<>>
    /\ cf_blamed = <<>> /\ cf_pending = <<>> /\ cf_exit_out = <<>>
    /\ cf_result = "none"

MDIdle ==
    /\ md_class = "none" /\ md_mode = "none" /\ md_star = FALSE
    /\ md_base = <<>> /\ md_op = "none" /\ md_pc = "off" /\ md_mode0 = "none"
    /\ md_output = <<>> /\ md_writes = <<>> /\ md_checks = <<>>
    /\ md_result = "none" /\ md_log = <<>>

KXIdle ==
    /\ kx_driver = <<>> /\ kx_pc = <<>> /\ kx_used = <<>>
    /\ Transport_preferred_kex = <<>>

CLIdle ==
    /\ cl_class = "none" /\ cl_pc = "off" /\ cl_depth = 0 /\ cl_idx = 0
    /\ cl_writes = <<>> /\ cl_caught = "none" /\ cl_fin = FALSE
    /\ cl_result = "none"

ALIdle ==
    /\ al_username = "none" /\ al_pc = "off" /\ al_i = 0 /\ al_output = <<>>
    /\ al_nreads = 0 /\ al_nwrites = 0 /\ al_last_write = "none"
    /\ al_result = "none"

ASIdle ==
    /\ as_ctx = "none" /\ as_cfg = FALSE /\ as_base = <<>> /\ as_op = "none"
    /\ as_cmd = <<>> /\ as_pc = "off" /\ as_base0 = <<>> /\ as_cfg0 = FALSE
    /\ as_log = <<>> /\ as_ret = <<>> /\ as_result = "none" /\ as_calls = 0

SPIdle ==
    /\ sp_secret = FALSE /\ allow_auto_change = FALSE
    /\ global_cmd_verify = "None" /\ sp_pc = "off" /\ sp_width = "no"
    /\ sp_steps = <<>> /\ sp_result = "none"

TLIdle ==
    /\ tl_pc = "off" /\ tl_count = 0 /\ tl_output = <<>> /\ return_msg = <<>>
    /\ tl_writes = <<>> /\ tl_closed = FALSE /\ tl_result = "none"

BSIdle ==
    /\ bs_args = <<>> /\ bs_super = <<>> /\ bs_pc = "off" /\ bs_idx = 0
    /\ bs_ops = <<>> /\ bs_result = "none"

CCIdle ==
    /\ cc_check_string = <<>> /\ cc_pattern = <<>> /\ cc_text = <<>>
    /\ cc_ssh = <<>> /\ cc_base = <<>>

RDIdle ==
    /\ rd_attr = "none" /\ rd_saved = <<>> /\ rd_enabled = FALSE /\ rd_calls = 0
    /\ rd_args = <<>> /\ rd_sent = <<>> /\ rd_result = "none" /\ rd_output = "none"

BBIdle ==
    /\ bb_calls = 0 /\ bb_prompt = <<>> /\ bb_base = <<>>
    /\ bb_result = "none" /\ bb_ret = <<>>

FOIdle ==
    /\ fo_pc = "off" /\ fo_vdom = FALSE /\ fo_perm = FALSE /\ fo_banner = FALSE
    /\ fo_mode0 = "none" /\ fo_mode = "none" /\ fo_ctx = <<>>
    /\ fo_pending = "none" /\ fo_output_mode = "unset" /\ fo_idx = 0
    /\ fo_writes = <<>>

InitFP ==
    /\ BPIdle /\ RTIdle /\ ENIdle /\ CFIdle /\ MDIdle /\ KXIdle /\ CLIdle /\ ALIdle /\ ASIdle /\ SPIdle /\ TLIdle /\ BSIdle /\ CCIdle /\ RDIdle /\ BBIdle /\ FOIdle
    /\ driver \in Drivers
    /\ fp_pc = "start"
    /\ loops = 0 /\ count = 0
    /\ prompt = <<>> /\ raw = <<>>
    /\ sleep_time = 1
    /\ fp_writes = 0 /\ innerWrites = 0 /\ innerReads = 0 /\ emptyReads = 0
    /\ fp_result = "none"

NextFP ==
    \/ FP_Start
    \/ \E t \in DeviceTexts : FP_OuterRead(t)
    \/ \E t \in DeviceTexts : FP_InnerRead(t)
    \/ FP_Validate
    \/ FP_Exhausted
    \/ FP_Return

SpecFP == InitFP /\ [][NextFP]_vars

----------------------------------------------------------------------------
(* set_base_prompt of AudiocodeSSH and AudiocodeBaseSSH *)

\* Bound on the length of the generated prompts.
MaxPromptLen == 3

PromptAlphabet == {"h", "*", "#", ">"}

\* what find_prompt() can hand to set_base_prompt: a non-empty line without
\* surrounding whitespace
FoundPrompts ==
    UNION {[1..n -> PromptAlphabet] : n \in 1..MaxPromptLen} \cup {T_hostname}

\* AudiocodeSSH.set_base_prompt defaults
pri_prompt_terminator1 == <<">">>
pri_prompt_terminator2 == <<"#">>
alt_prompt_terminator1 == <<"*", ">">>
alt_prompt_terminator2 == <<"*", "#">>

\* Python truth value of a str
Truthy(s) == s # <<>>

\* prompt[:-n]
DropLast(s, n) == IF Len(s) >= n THEN SubSeq(s, 1, Len(s) - n) ELSE <<>>

\* AudiocodeSSH.set_base_prompt on the prompt p that find_prompt returned:
\* prompt[-2] and prompt[-1] are one-character strings compared with the
\* members of the tuples; `alt1 or alt2 in prompt` is `alt1 or (alt2 in prompt)`.
AudiocodeSSH_set_base_prompt(p) ==
    IF Len(p) < 2 THEN [result |-> "IndexError", base |-> base_prompt]
    ELSE IF /\ <<p[Len(p) - 1]>> \notin {alt_prompt_terminator1, alt_prompt_terminator2}
            /\ <<p[Len(p)]>> \notin {pri_prompt_terminator1, pri_prompt_terminator2}
        THEN [result |-> "ValueError", base |-> base_prompt]
    ELSE IF Truthy(alt_prompt_terminator1) \/ Contains(p, alt_prompt_terminator2)
        THEN [result |-> "return", base |-> DropLast(p, 2)]
    ELSE [result |-> "return", base |-> DropLast(p, 1)]

\* AudiocodeBaseSSH.set_base_prompt on the prompt p: the pattern
\* (\*?#$|\*?>)$ matches an optional '*' and a final '#' or '>', and
\* re.sub removes the match.
AudiocodeBaseSSH_set_base_prompt(p) ==
    IF EndsWith(p, <<"*", "#">>) \/ EndsWith(p, <<"*", ">">>)
        THEN [result |-> "return", base |-> DropLast(p, 2)]
    ELSE IF EndsWith(p, <<"#">>) \/ EndsWith(p, <<">">>)
        THEN [result |-> "return", base |-> DropLast(p, 1)]
    ELSE [result |-> "ValueError", base |-> base_prompt]

\* one call of AudiocodeSSH.set_base_prompt
BP_AudiocodeSSH(p) ==
    /\ bp_class = "AudiocodeSSH"
    /\ bp_prompt' = p
    /\ base_prompt' = AudiocodeSSH_set_base_prompt(p).base
    /\ bp_result' = AudiocodeSSH_set_base_prompt(p).result
    /\ UNCHANGED bp_class
    /\ BP_Frame

\* one call of AudiocodeBaseSSH.set_base_prompt
BP_AudiocodeBaseSSH(p) ==
    /\ bp_class = "AudiocodeBaseSSH"
    /\ bp_prompt' = p
    /\ base_prompt' = AudiocodeBaseSSH_set_base_prompt(p).base
    /\ bp_result' = AudiocodeBaseSSH_set_base_prompt(p).result
    /\ UNCHANGED bp_class
    /\ BP_Frame

InitBP ==
    /\ FPIdle /\ RTIdle /\ ENIdle /\ CFIdle /\ MDIdle /\ KXIdle /\ CLIdle /\ ALIdle /\ ASIdle /\ SPIdle /\ TLIdle /\ BSIdle /\ CCIdle /\ RDIdle /\ BBIdle /\ FOIdle
    /\ bp_class \in {"AudiocodeSSH", "AudiocodeBaseSSH"}
    /\ bp_prompt = <<>> /\ base_prompt = <<>>
    /\ bp_result = "none"

NextBP ==
    \/ \E p \in FoundPrompts : BP_AudiocodeSSH(p)
    \/ \E p \in FoundPrompts : BP_AudiocodeBaseSSH(p)

SpecBP == InitBP /\ [][NextBP]_vars

----------------------------------------------------------------------------
(* AdtranOSBase._read_channel_timing_or_error *)

\* Bound on the max_loops argument.
RtMaxLoops == 2

\* pattern="Received disconnect" (the call in send_config_set)
P_disconnect == <<"R", "e", "c", "e", "i", "v", "e", "d", " ", "d", "i", "s", "c",
                  "o", "n", "n", "e", "c", "t">>
\* pattern="" (the default)
P_default == <<>>

\* what one read_channel() can deliver during the timed read
D_ok    == <<"o", "k", "\n">>
D_disc1 == <<"R", "e", "c", "e", "i", "v", "e", "d", " ", "d", "i", "s", "c">>
D_disc2 == <<"o", "n", "n", "e", "c", "t">>
RtChunks == {<<>>, D_ok, D_disc1, D_disc2}

\* `if not new_data: break` after the final_delay sleep
ConfirmedQuiet(new_data) == new_data = <<>>

\* mutant of PatternFound: the error pattern is never looked for
PatternFoundNever(data, pattern) == FALSE

\* `if pattern in channel_data:`
PatternFound(data, pattern) == Contains(data, pattern)

\* the `if new_data:` branch: append, then test the error pattern
RT_Append(t) ==
    /\ channel_data' = channel_data \o t
    /\ IF PatternFound(channel_data', rt_pattern)
         THEN rt_result' = "ValueError" /\ rt_pc' = "done" /\ UNCHANGED rt_i
         ELSE rt_result' = "none" /\ rt_pc' = "loop" /\ rt_i' = rt_i + 1

\* while i <= max_loops: sleep(loop_delay); new_data = read_channel()
RT_Read(t) ==
    /\ rt_pc = "loop"
    /\ rt_i <= rt_max_loops
    /\ rt_log' = Append(rt_log, t)
    /\ IF t # <<>>
         THEN RT_Append(t)
         ELSE /\ rt_pc' = "confirm"
              /\ UNCHANGED <<rt_i, channel_data, rt_result>>
    /\ UNCHANGED <<rt_max_loops, rt_pattern>>
    /\ RT_Frame

\* the else branch: sleep(final_delay); new_data = read_channel()
RT_Confirm(t) ==
    /\ rt_pc = "confirm"
    /\ rt_log' = Append(rt_log, t)
    /\ IF ConfirmedQuiet(t)
         THEN /\ rt_pc' = "done" /\ rt_result' = "return"
              /\ UNCHANGED <<rt_i, channel_data>>
         ELSE RT_Append(t)
    /\ UNCHANGED <<rt_max_loops, rt_pattern>>
    /\ RT_Frame

\* the while condition fails: return channel_data
RT_Exhausted ==
    /\ rt_pc = "loop"
    /\ rt_i > rt_max_loops
    /\ rt_pc' = "done" /\ rt_result' = "return"
    /\ UNCHANGED <<rt_i, rt_max_loops, rt_pattern, channel_data, rt_log>>
    /\ RT_Frame

InitRT ==
    /\ FPIdle /\ BPIdle /\ ENIdle /\ CFIdle /\ MDIdle /\ KXIdle /\ CLIdle /\ ALIdle /\ ASIdle /\ SPIdle /\ TLIdle /\ BSIdle /\ CCIdle /\ RDIdle /\ BBIdle /\ FOIdle
    /\ rt_pc = "loop" /\ rt_i = 0
    /\ rt_max_loops \in 1..RtMaxLoops
    /\ rt_pattern \in {P_default, P_disconnect}
    /\ channel_data = <<>> /\ rt_log = <<>> /\ rt_result = "none"

NextRT ==
    \/ \E t \in RtChunks : RT_Read(t)
    \/ \E t \in RtChunks : RT_Confirm(t)
    \/ RT_Exhausted

SpecRT == InitRT /\ [][NextRT]_vars

----------------------------------------------------------------------------
(* AdtranOSBase.enable *)

\* what the device can answer during enable
R_password == <<"P", "a", "s", "s", "w", "o", "r", "d", ":", " ">>
R_PASSWORD == <<"P", "A", "S", "S", "W", "O", "R", "D", ":">>
R_priv     == <<"d", "e", "v", "i", "c", "e", "#">>
R_user     == <<"d", "e", "v", "i", "c", "e", ">">>
R_nlpriv   == <<"\r", "\n", "d", "e", "v", "i", "c", "e", "#">>
EnTexts    == {R_password, R_PASSWORD, R_priv, R_user, R_nlpriv}

\* a read that ran into the transport timeout (NetmikoTimeoutException)
TIMEOUT == <<"TIMEOUT">>

\* the session's base_prompt during enable
en_base_prompt == <<"d", "e", "v", "i", "c", "e">>

\* enable(pattern="ssword:", re_flags=re.IGNORECASE)
en_pattern == <<"s", "s", "w", "o", "r", "d", ":">>

\* check_enable_mode(check_string="#")
en_check_string == <<"#">>

\* str.lower() on the letters the texts use
Lower(c) ==
    CASE c = "P" -> "p" [] c = "A" -> "a" [] c = "S" -> "s" [] c = "W" -> "w"
      [] c = "O" -> "o" [] c = "R" -> "r" [] c = "D" -> "d" [] c = "U" -> "u"
      [] c = "L" -> "l" [] c = "N" -> "n" [] c = "E" -> "e" [] c = "I" -> "i"
      [] OTHER -> c

LowerSeq(s) == [k \in 1..Len(s) |-> Lower(s[k])]

\* re.search(pattern, text, flags=re.IGNORECASE) for a literal pattern
SearchIgnoreCase(text, pat) == Contains(LowerSeq(text), LowerSeq(pat))

\* texts on which read_until_prompt_or_pattern(pattern, re_flags) ends
PromptOrPatternReads ==
    {t \in EnTexts :
        Contains(t, en_base_prompt) \/ SearchIgnoreCase(t, en_pattern)}

\* texts on which read_until_prompt() ends
PromptReads == {t \in EnTexts : Contains(t, en_base_prompt)}

\* `if pattern in output:` after the second read
SecondPromptSeen(output) == Contains(output, en_pattern)

\* mutant of EnableFailed: the result of the final probe is ignored
EnableFailedNever(checked) == FALSE

\* `if not self.check_enable_mode(): raise ValueError(msg)`
EnableFailed(checked) == ~checked

\* `if not self.check_enable_mode():` with the probe answered by r; the
\* probe is outside the try block
EN_Check1(r) ==
    /\ en_pc = "check1"
    /\ IF r = TIMEOUT
         THEN /\ en_writes' = Append(en_writes, "RETURN")
              /\ en_result' = "NetmikoTimeoutException"
              /\ en_pc' = "done"
              /\ UNCHANGED en_checks
         ELSE /\ en_checks' = Append(en_checks, Contains(r, en_check_string))
              /\ IF Contains(r, en_check_string)
                   THEN /\ en_writes' = Append(en_writes, "RETURN")
                        /\ en_result' = "return"
                        /\ en_pc' = "done"
                   ELSE /\ en_writes' = en_writes \o <<"RETURN", "cmd">>
                        /\ en_result' = "none"
                        /\ en_pc' = "read1"
    /\ UNCHANGED <<en_output, en_reads>>
    /\ EN_Frame

\* output += read_until_prompt_or_pattern(...); write_channel(secret); output = ""
EN_Read1(r) ==
    /\ en_pc = "read1"
    /\ IF r = TIMEOUT
         THEN /\ en_result' = "ValueError" /\ en_pc' = "done"
              /\ UNCHANGED <<en_writes, en_reads>>
         ELSE /\ en_reads' = Append(en_reads, r)
              /\ en_writes' = Append(en_writes, "secret")
              /\ en_pc' = "read2"
              /\ UNCHANGED en_result
    /\ en_output' = <<>>
    /\ UNCHANGED en_checks
    /\ EN_Frame

\* output += read_until_prompt_or_pattern(...); if pattern in output: write secret
EN_Read2(r) ==
    /\ en_pc = "read2"
    /\ IF r = TIMEOUT
         THEN /\ en_result' = "ValueError" /\ en_pc' = "done"
              /\ UNCHANGED <<en_writes, en_reads, en_output>>
         ELSE /\ en_reads' = Append(en_reads, r)
              /\ en_output' = en_output \o r
              /\ IF SecondPromptSeen(en_output')
                   THEN /\ en_writes' = Append(en_writes, "secret")
                        /\ en_pc' = "read3"
                   ELSE /\ en_pc' = "check2"
                        /\ UNCHANGED en_writes
              /\ UNCHANGED en_result
    /\ UNCHANGED en_checks
    /\ EN_Frame

\* output += read_until_prompt() after the second secret
EN_Read3(r) ==
    /\ en_pc = "read3"
    /\ IF r = TIMEOUT
         THEN /\ en_result' = "ValueError" /\ en_pc' = "done"
              /\ UNCHANGED <<en_reads, en_output>>
         ELSE /\ en_reads' = Append(en_reads, r)
              /\ en_output' = en_output \o r
              /\ en_pc' = "check2"
              /\ UNCHANGED en_result
    /\ UNCHANGED <<en_writes, en_checks>>
    /\ EN_Frame

\* `if not self.check_enable_mode(): raise ValueError(msg)`, inside the try
EN_Check2(r) ==
    /\ en_pc = "check2"
    /\ en_writes' = Append(en_writes, "RETURN")
    /\ IF r = TIMEOUT
         THEN /\ en_result' = "ValueError"
              /\ UNCHANGED en_checks
         ELSE /\ en_checks' = Append(en_checks, Contains(r, en_check_string))
              /\ en_result' = IF EnableFailed(Contains(r, en_check_string))
                                 THEN "ValueError" ELSE "return"
    /\ en_pc' = "done"
    /\ UNCHANGED <<en_output, en_reads>>
    /\ EN_Frame

InitEN ==
    /\ FPIdle /\ BPIdle /\ RTIdle /\ CFIdle /\ MDIdle /\ KXIdle /\ CLIdle /\ ALIdle /\ ASIdle /\ SPIdle /\ TLIdle /\ BSIdle /\ CCIdle /\ RDIdle /\ BBIdle /\ FOIdle
    /\ en_pc = "check1" /\ en_output = <<>> /\ en_writes = <<>>
    /\ en_reads = <<>> /\ en_checks = <<>> /\ en_result = "none"

NextEN ==
    \/ \E r \in PromptReads \cup {TIMEOUT} : EN_Check1(r)
    \/ \E r \in PromptOrPatternReads \cup {TIMEOUT} : EN_Read1(r)
    \/ \E r \in PromptOrPatternReads \cup {TIMEOUT} : EN_Read2(r)
    \/ \E r \in PromptReads \cup {TIMEOUT} : EN_Read3(r)
    \/ \E r \in PromptReads \cup {TIMEOUT} : EN_Check2(r)

SpecEN == InitEN /\ [][NextEN]_vars

----------------------------------------------------------------------------
(* send_config_set of AudiocodeShellSSH and AdtranOSBase *)

\* the classes whose send_config_set is modelled
CfClasses == {"AdtranOSBase", "AudiocodeShellSSH"}

C_a == <<"s", "e", "t", " ", "a">>
C_b == <<"s", "e", "t", " ", "b">>
C_c == <<"s", "e", "t", " ", "c">>
\* a command that contains '#'
C_h == <<"s", "e", "t", " ", "#">>
CfCommands == {C_a, C_b, C_c, C_h}
\* the batches passed as config_commands
CfBatches == {<<C_a>>, <<C_a, C_b>>, <<C_a, C_b, C_c>>, <<C_h, C_a>>}

\* error_pattern argument: "" (default) or "Invalid"
EP_none    == <<>>
EP_invalid == <<"I", "n", "v", "a", "l", "i", "d">>

\* device texts
D_invalid   == <<"%", " ", "I", "n", "v", "a", "l", "i", "d", " ", "i", "n", "p",
                 "u", "t", "\n">>
D_cfgprompt == <<"/", "C", "O", "N", "F", "i", "g", "u", "r", "a", "t", "i", "o",
                 "n", ">">>
D_shprompt  == <<"/", ">">>
CfPrompts   == {D_cfgprompt, D_shprompt}
\* prompts of an AOS device
A_cfgprompt == <<"d", "e", "v", "i", "c", "e", "(", "c", "o", "n", "f", "i", "g",
                 ")", "#">>
A_prompt    == <<"d", "e", "v", "i", "c", "e", "#">>
A_base      == <<"d", "e", "v", "i", "c", "e">>

\* the prompts a device of the class shows
CfPromptsOf(cls) ==
    IF cls = "AudiocodeShellSSH" THEN CfPrompts ELSE {A_cfgprompt, A_prompt}

\* self.base_prompt of the shell session (set_base_prompt keeps the prompt)
cf_base_prompt == D_shprompt

\* self.base_prompt by class; the AOS base prompt is the prompt without its
\* terminator, which is empty for a device whose prompt is the terminator
BasePromptsOf(cls) ==
    IF cls = "AudiocodeShellSSH" THEN {cf_base_prompt} ELSE {A_base, <<>>}

\* what a command makes the device send: its echo, an optional rejection
\* line, the next prompt
CmdEcho(c) == c \o <<"\n">>
CmdTail(bad, pr) == (IF bad THEN D_invalid ELSE <<>>) \o pr
CmdOut(c, bad, pr) == CmdEcho(c) \o CmdTail(bad, pr)

\* what config_mode() returns: the mode prompt, possibly after a warning line
EntryOutputs == {D_cfgprompt, D_invalid \o D_cfgprompt}
\* what exit_config_mode() returns
ExitOutputs == {<<>>, D_shprompt}
\* config_mode() / exit_config_mode() raising ValueError
FAILED == <<"FAILED">>

\* the outcomes of self.config_mode(...) for the call
EntryReturns(a) ==
    IF ~a.enter THEN {<<>>}
    ELSE IF a.cls = "AudiocodeShellSSH" THEN EntryOutputs \cup {FAILED}
    ELSE {A_cfgprompt, FAILED}

\* the outcomes of self.exit_config_mode() for the call
ExitReturns(a) ==
    IF ~a.exit THEN {<<>>}
    ELSE IF a.cls = "AudiocodeShellSSH" THEN ExitOutputs \cup {FAILED}
    ELSE {<<>>, A_prompt, FAILED}

\* re.search(f"(?:{re.escape(self.base_prompt)}|#)", new_output)
PromptSeen(text) == Contains(text, cf_args.base) \/ Contains(text, <<"#">>)

\* re.search(error_pattern, output, flags=re.M) for a literal pattern
ErrorSeen(ep, output) == Contains(output, ep)

\* AudiocodeShellSSH: `if self.fast_cli and self._legacy_mode and not
\* error_pattern:`; AdtranOSBase: `if self.fast_cli and self._legacy_mode:`
FastPath(a) ==
    a.fast /\ (a.cls = "AudiocodeShellSSH" => a.error_pattern = <<>>)

\* _sanitize_output(output) with strip_command and strip_prompt left False
Sanitize(output) == normalize_linefeeds(output)

\* the position after the command loop of the timed / verified strategies
AfterLoop(a) ==
    IF ~a.cmd_verify /\ a.error_pattern = <<>> THEN "gather" ELSE "exit"

\* mutant of LoopCmd: the loop writes the first command on every pass
LoopCmdFirst(a, i) == a.cmds[1]

\* `for cmd in config_commands:` the command of pass i
LoopCmd(a, i) == a.cmds[i]

\* mutant of ExitRequested: the mode exit is performed unconditionally
ExitRequestedAlways(a) == TRUE

\* `if exit_config_mode:`
ExitRequested(a) == a.exit

\* `if error_pattern: if re.search(error_pattern, output): raise
\*  ConfigInvalidException(f"... {cmd}")`, else go on with the next command;
\* out is the accumulated output
CF_Check(out) ==
    IF cf_args.error_pattern # <<>> /\ ErrorSeen(cf_args.error_pattern, out)
      THEN /\ cf_result' = "ConfigInvalidException"
           /\ cf_blamed' = LoopCmd(cf_args, cf_idx)
           /\ cf_pc' = "done"
           /\ UNCHANGED cf_idx
      ELSE /\ cf_idx' = cf_idx + 1
           /\ cf_pc' = IF cf_idx' > Len(cf_args.cmds) THEN AfterLoop(cf_args)
                                                       ELSE "cmds"
           /\ UNCHANGED <<cf_result, cf_blamed>>

\* output = ""; if enter_config_mode: output += self.config_mode(...)
CF_Start(e) ==
    /\ cf_pc = "start"
    /\ IF ~cf_args.enter
         THEN /\ cf_pc' = IF FastPath(cf_args) THEN "burst" ELSE "cmds"
              /\ UNCHANGED <<cf_output, cf_writes, cf_result>>
         ELSE /\ cf_writes' = Append(cf_writes, <<"config_mode">>)
              /\ IF e = FAILED
                   THEN /\ cf_result' = "ValueError" /\ cf_pc' = "done"
                        /\ UNCHANGED cf_output
                   ELSE /\ cf_output' = cf_output \o e
                        /\ cf_pc' = IF FastPath(cf_args) THEN "burst" ELSE "cmds"
                        /\ UNCHANGED cf_result
    /\ UNCHANGED <<cf_args, cf_idx, cf_new_output, cf_outs, cf_blamed,
                   cf_pending, cf_exit_out>>
    /\ CF_Frame

\* fast strategy: for cmd in config_commands: write_channel(cmd)
CF_Burst ==
    /\ cf_pc = "burst"
    /\ cf_writes' = cf_writes \o cf_args.cmds
    /\ cf_idx' = Len(cf_args.cmds) + 1
    /\ cf_pc' = "gather"
    /\ UNCHANGED <<cf_args, cf_output, cf_new_output, cf_outs, cf_blamed,
                   cf_result, cf_pending, cf_exit_out>>
    /\ CF_Frame

\* timed strategy, one pass of the loop: write the command, sleep, and
\* (AudiocodeShellSSH with error_pattern) read and scan the accumulated output
CF_Timed(bad, pr) ==
    /\ cf_pc = "cmds" /\ ~cf_args.cmd_verify
    /\ cf_idx <= Len(cf_args.cmds)
    /\ cf_writes' = Append(cf_writes, LoopCmd(cf_args, cf_idx))
    /\ IF cf_args.error_pattern # <<>>
         THEN /\ cf_output' = cf_output \o CmdOut(cf_args.cmds[cf_idx], bad, pr)
              /\ cf_outs' = Append(cf_outs, CmdOut(cf_args.cmds[cf_idx], bad, pr))
              /\ CF_Check(cf_output')
         ELSE /\ ~bad
              /\ cf_idx' = cf_idx + 1
              /\ cf_pc' = IF cf_idx' > Len(cf_args.cmds) THEN AfterLoop(cf_args)
                                                          ELSE "cmds"
              /\ UNCHANGED <<cf_output, cf_outs, cf_result, cf_blamed>>
    /\ UNCHANGED <<cf_args, cf_new_output, cf_pending, cf_exit_out>>
    /\ CF_Frame

\* what an AOS device sends when it drops the terminal session
D_disconnect == <<"R", "e", "c", "e", "i", "v", "e", "d", " ", "d", "i", "s", "c",
                  "o", "n", "n", "e", "c", "t", "\n">>

\* the bulk read after the burst or the timed loop: _read_channel_timing, and
\* in the timed strategy of AdtranOSBase _read_channel_timing_or_error(
\* pattern="Received disconnect"), which raises ValueError when the device
\* reported the disconnect; disc is the command the device answered with the
\* disconnect, 0 when it did not
CF_Gather(bad, pr, disc) ==
    /\ cf_pc = "gather"
    /\ IF disc > 0
         THEN /\ cf_args.cls = "AdtranOSBase" /\ ~FastPath(cf_args)
              /\ disc <= Len(cf_args.cmds)
              /\ ~bad /\ pr = A_prompt
              /\ cf_outs' = [k \in 1..disc |->
                                IF k < disc THEN CmdOut(cf_args.cmds[k], bad, pr)
                                ELSE CmdEcho(cf_args.cmds[k]) \o D_disconnect]
              /\ cf_result' = "ValueError" /\ cf_pc' = "done"
              /\ UNCHANGED cf_output
         ELSE /\ cf_outs' = [k \in 1..Len(cf_args.cmds) |->
                                CmdOut(cf_args.cmds[k], bad, pr)]
              /\ cf_output' = cf_output \o Flatten(cf_outs')
              /\ cf_pc' = "exit"
              /\ UNCHANGED cf_result
    /\ UNCHANGED <<cf_args, cf_idx, cf_new_output, cf_writes, cf_blamed,
                   cf_pending, cf_exit_out>>
    /\ CF_Frame

\* echo-verified strategy: write the command and read until its echo.  The
\* device answers with the echo, an optional rejection line and the prompt;
\* the read returns what was still unread followed by the answer up to the
\* echo or (whole) up to its end; to: read_until_pattern raised the timeout
CF_Verify(to, bad, pr, whole) ==
    /\ cf_pc = "cmds" /\ cf_args.cmd_verify
    /\ cf_idx <= Len(cf_args.cmds)
    /\ cf_writes' = Append(cf_writes, LoopCmd(cf_args, cf_idx))
    /\ IF to
         THEN /\ ~bad /\ ~whole
              /\ cf_result' = "NetmikoTimeoutException" /\ cf_pc' = "done"
              /\ UNCHANGED <<cf_output, cf_new_output, cf_outs, cf_idx, cf_blamed,
                             cf_pending>>
         ELSE LET c == cf_args.cmds[cf_idx]
                  t == cf_pending \o (IF whole THEN CmdOut(c, bad, pr)
                                               ELSE CmdEcho(c))
              IN /\ cf_new_output' = t
                 /\ cf_output' = cf_output \o t
                 /\ cf_outs' = Append(cf_outs, CmdOut(c, bad, pr))
                 /\ cf_pending' = IF whole THEN <<>> ELSE CmdTail(bad, pr)
                 /\ IF PromptSeen(t)
                      THEN CF_Check(cf_output')
                      ELSE /\ cf_pc' = "prompt"
                           /\ UNCHANGED <<cf_idx, cf_result, cf_blamed>>
    /\ UNCHANGED <<cf_args, cf_exit_out>>
    /\ CF_Frame

\* echo-verified strategy: the additional read for the trailing prompt; it
\* returns the unread rest of the answer, or raises the timeout when the rest
\* does not match the pattern or the device is silent (to)
CF_VerifyPrompt(to) ==
    /\ cf_pc = "prompt"
    /\ IF to \/ ~PromptSeen(cf_pending)
         THEN /\ cf_result' = "NetmikoTimeoutException" /\ cf_pc' = "done"
              /\ UNCHANGED <<cf_output, cf_new_output, cf_idx, cf_blamed,
                             cf_pending>>
         ELSE /\ cf_new_output' = cf_pending
              /\ cf_output' = cf_output \o cf_pending
              /\ cf_pending' = <<>>
              /\ CF_Check(cf_output')
    /\ UNCHANGED <<cf_args, cf_writes, cf_outs, cf_exit_out>>
    /\ CF_Frame

\* if exit_config_mode: output += self.exit_config_mode();
\* output = self._sanitize_output(output); return output
CF_Exit(x) ==
    /\ cf_pc = "exit"
    /\ IF ~ExitRequested(cf_args)
         THEN /\ x = <<>>
              /\ cf_output' = Sanitize(cf_output)
              /\ cf_result' = "return"
              /\ UNCHANGED <<cf_writes, cf_exit_out>>
         ELSE /\ cf_writes' = Append(cf_writes, <<"exit_config_mode">>)
              /\ IF x = FAILED
                   THEN /\ cf_result' = "ValueError"
                        /\ UNCHANGED <<cf_output, cf_exit_out>>
                   ELSE /\ cf_output' = Sanitize(cf_output \o x)
                        /\ cf_exit_out' = x
                        /\ cf_result' = "return"
    /\ cf_pc' = "done"
    /\ UNCHANGED <<cf_args, cf_idx, cf_new_output, cf_outs, cf_blamed,
                   cf_pending>>
    /\ CF_Frame

\* config_commands as passed: a list of commands or a single command string
CfGiven ==
    {[kind |-> "list", val |-> b] : b \in CfBatches}
    \cup {[kind |-> "str", val |-> c] : c \in {C_a, C_h}}

\* mutant of NormalizeCommands: a string is iterated character by character
NormalizeCommandsChars(given) ==
    IF given.kind = "str" THEN [k \in 1..Len(given.val) |-> <<given.val[k]>>]
                          ELSE given.val

\* elif isinstance(config_commands, str): config_commands = (config_commands,)
NormalizeCommands(given) ==
    IF given.kind = "str" THEN <<given.val>> ELSE given.val

\* the calls, with cmds the batch the loops iterate over;
\* AdtranOSBase.send_config_set has no error_pattern parameter
CfCalls ==
    {[a EXCEPT !.cmds = NormalizeCommands(a.given)] :
        a \in {b \in [cls : CfClasses, given : CfGiven, cmds : {<<>>},
                      enter : BOOLEAN, exit : BOOLEAN,
                      cmd_verify : BOOLEAN, fast : BOOLEAN,
                      error_pattern : {EP_none, EP_invalid},
                      base : {cf_base_prompt, A_base, <<>>}] :
                  /\ b.base \in BasePromptsOf(b.cls)
                  /\ b.cls = "AdtranOSBase" => b.error_pattern = EP_none}}

InitCF ==
    /\ FPIdle /\ BPIdle /\ RTIdle /\ ENIdle /\ MDIdle /\ KXIdle /\ CLIdle /\ ALIdle /\ ASIdle /\ SPIdle /\ TLIdle /\ BSIdle /\ CCIdle /\ RDIdle /\ BBIdle /\ FOIdle
    /\ cf_pc = "start"
    /\ cf_args \in CfCalls
    /\ cf_idx = 1 /\ cf_output = <<>> /\ cf_new_output = <<>>
    /\ cf_writes = <<>> /\ cf_outs = <<>> /\ cf_blamed = <<>>
    /\ cf_pending = <<>> /\ cf_exit_out = <<>>
    /\ cf_result = "none"

NextCF ==
    \/ \E e \in EntryReturns(cf_args) : CF_Start(e)
    \/ CF_Burst
    \/ \E bad \in BOOLEAN, pr \in CfPromptsOf(cf_args.cls) : CF_Timed(bad, pr)
    \/ \E bad \in BOOLEAN, disc \in 0..Len(cf_args.cmds),
          pr \in CfPromptsOf(cf_args.cls) : CF_Gather(bad, pr, disc)
    \/ \E to, bad, whole \in BOOLEAN, pr \in CfPromptsOf(cf_args.cls) :
          CF_Verify(to, bad, pr, whole)
    \/ \E to \in BOOLEAN : CF_VerifyPrompt(to)
    \/ \E x \in ExitReturns(cf_args) : CF_Exit(x)

SpecCF == InitCF /\ [][NextCF]_vars

----------------------------------------------------------------------------
(* Mode probes and mode transitions: check_enable_mode, config_mode and   *)
(* exit_config_mode, called one after the other on one session            *)

\* Bound on the number of calls made on the session.
MaxCalls == 3

MdClasses == {"AudiocodeSSH", "AudiocodeBaseSSH", "AudiocodeShellSSH",
              "FortinetSSH", "AdtranOSBase"}

\* the AudioCodes CLI classes
IsAudiocodeCli(cls) == cls \in {"AudiocodeSSH", "AudiocodeBaseSSH"}

\* the operations of each class that are modelled
OpsOf(cls) ==
    CASE cls = "AudiocodeSSH"      -> {"config_mode", "exit_config_mode"}
      [] cls = "AudiocodeBaseSSH"  -> {"exit_config_mode", "check_enable_mode"}
      [] cls = "AudiocodeShellSSH" -> {"exit_config_mode"}
      [] cls = "FortinetSSH"       -> {"exit_config_mode"}
      [] cls = "AdtranOSBase"      -> {"check_enable_mode"}

\* the modes a device of the class can be in
ModesOf(cls) ==
    IF cls \in {"AudiocodeShellSSH", "FortinetSSH"} THEN {"priv", "config"}
    ELSE {"user", "priv", "config"}

\* the prompt the device shows in a mode; star: the AudioCodes device has
\* pending changes ('*' before the terminator), the Fortinet account is
\* read-only ('$' terminator)
DevPrompt(cls, mode, star) ==
    CASE IsAudiocodeCli(cls) ->
            (IF mode = "config" THEN <<"M", "(", "c", ")">> ELSE <<"M">>)
            \o (IF star THEN <<"*">> ELSE <<>>)
            \o (IF mode = "user" THEN <<">">> ELSE <<"#">>)
      [] cls = "AudiocodeShellSSH" ->
            IF mode = "config" THEN D_cfgprompt ELSE D_shprompt
      [] cls = "FortinetSSH" ->
            (IF mode = "config" THEN <<"F", " ", "(", "g", ")", " ">>
                                ELSE <<"F", " ">>)
            \o (IF star THEN <<"$">> ELSE <<"#">>)
      [] cls = "AdtranOSBase" ->
            IF mode = "config" THEN A_cfgprompt
            ELSE IF mode = "priv" THEN R_priv ELSE R_user

\* self.base_prompt of the session
BasePromptOf(cls) ==
    CASE IsAudiocodeCli(cls)         -> <<"M">>
      [] cls = "AudiocodeShellSSH"   -> cf_base_prompt
      [] cls = "FortinetSSH"         -> <<"F">>
      [] cls = "AdtranOSBase"        -> en_base_prompt

\* what the device sends after a line: a line break and its prompt
DevAnswer(cls, mode, star) == <<"\r", "\n">> \o DevPrompt(cls, mode, star)

\* read_until_pattern(pattern) for a literal pattern on a device that sends
\* text and then stays silent: the text if it matches, else the timeout;
\* the empty pattern matches any text
ReadUntilPattern(pattern, text) ==
    IF Contains(text, pattern) THEN text ELSE TIMEOUT

\* pattern argument of check_config_mode: "#" for the AudioCodes CLI classes,
\* "" (timed read) for AudiocodeShellSSH and FortinetSSH
CheckPattern(cls) == IF IsAudiocodeCli(cls) THEN <<"#">> ELSE <<>>

\* the read of check_config_mode: read_until_pattern(pattern) or, with an
\* empty pattern, _read_channel_timing
CheckRead(cls, text) ==
    IF CheckPattern(cls) = <<>> THEN text
    ELSE ReadUntilPattern(CheckPattern(cls), text)

\* mutant of AudiocodeSSH_check: the secondary marker is not tried
AudiocodeSSH_check_primary(check_string, output) == Contains(output, check_string)

\* AudiocodeSSH.check_config_mode on the text read: `if check_string in
\* output: return check_string in output; else: check_string = ")*#";
\* return check_string in output`
AudiocodeSSH_check(check_string, output) ==
    IF Contains(output, check_string) THEN Contains(output, check_string)
    ELSE Contains(output, <<")", "*", "#">>)

\* AudiocodeBaseSSH.check_config_mode: check_string in output or ")*#" in output
AudiocodeBaseSSH_check(check_string, output) ==
    Contains(output, check_string) \/ Contains(output, <<")", "*", "#">>)

\* ... with the default check_string=")#"
AudiocodeSSH_check_config_mode(output) ==
    AudiocodeSSH_check(<<")", "#">>, output)

AudiocodeBaseSSH_check_config_mode(output) ==
    AudiocodeBaseSSH_check(<<")", "#">>, output)

\* AudiocodeShellSSH.check_config_mode: "/CONFiguration" in output
AudiocodeShellSSH_check_config_mode(output) ==
    Contains(output, <<"/", "C", "O", "N", "F", "i", "g", "u", "r", "a", "t", "i",
                       "o", "n">>)

\* FortinetSSH.check_config_mode: ") #" in output or ") $" in output
FortinetSSH_check_config_mode(output) ==
    Contains(output, <<")", " ", "#">>) \/ Contains(output, <<")", " ", "$">>)

\* check_config_mode of the class on the text read
check_config_mode(cls, output) ==
    CASE cls = "AudiocodeSSH"      -> AudiocodeSSH_check_config_mode(output)
      [] cls = "AudiocodeBaseSSH"  -> AudiocodeBaseSSH_check_config_mode(output)
      [] cls = "AudiocodeShellSSH" -> AudiocodeShellSSH_check_config_mode(output)
      [] cls = "FortinetSSH"       -> FortinetSSH_check_config_mode(output)

\* check_enable_mode: check_string ("#") in output
check_enable_mode(output) == Contains(output, en_check_string)

\* pattern that ends the read of exit_config_mode; FortinetSSH reads until
\* (#|$), and the unescaped $ matches at the end of any text
ExitPattern(cls) ==
    CASE IsAudiocodeCli(cls)       -> <<"#">>
      [] cls = "AudiocodeShellSSH" -> <<"/", ">">>
      [] cls = "FortinetSSH"       -> <<>>

\* mutant of ProbeWrites: the probe sends the line terminator twice
ProbeWritesTwice == <<"RETURN", "RETURN">>

\* self.write_channel(self.RETURN) of a probe
ProbeWrites == <<"RETURN">>

\* mutant of EnterFailed: the check after the configuration command is ignored
EnterFailedNever(checked) == FALSE

\* `if not self.check_config_mode(): raise ValueError("Failed to enter
\* configuration mode.")`
EnterFailed(checked) == ~checked

\* mutant of ExitFailed: the check after the exit command is ignored
ExitFailedNever(checked) == FALSE

\* `if self.check_config_mode(): raise ValueError("Failed to exit
\* configuration mode")`
ExitFailed(checked) == checked

\* the call ends: its outcome is recorded and the session is idle again
MD_Finish(op, result, value, writes, mode0) ==
    /\ md_pc' = "idle"
    /\ md_result' = result
    /\ md_output' = value
    /\ md_log' = Append(md_log, [op |-> op, result |-> result, value |-> value,
                                 writes |-> writes, before |-> mode0,
                                 after |-> md_mode', base |-> md_base'])

\* a read raised the timeout: the call ends with NetmikoTimeoutException
MD_TimedOut(op, writes, mode0) ==
    MD_Finish(op, "NetmikoTimeoutException", <<>>, writes, mode0)

\* check_enable_mode of AudiocodeBaseSSH and AdtranOSBase, one call:
\* write_channel(RETURN); output = read_until_prompt(); return check_string
\* in output.  to: the read raised the timeout.
MD_CheckEnable(to) ==
    /\ md_pc = "idle" /\ Len(md_log) < MaxCalls
    /\ "check_enable_mode" \in OpsOf(md_class)
    /\ md_op' = "check_enable_mode"
    /\ md_writes' = ProbeWrites
    /\ md_checks' = <<>>
    /\ UNCHANGED <<md_class, md_mode, md_star, md_base, md_mode0>>
    /\ IF to
         THEN MD_TimedOut("check_enable_mode", md_writes', md_mode)
         ELSE MD_Finish("check_enable_mode", "return",
                        check_enable_mode(DevAnswer(md_class, md_mode, md_star)),
                        md_writes', md_mode)
    /\ MD_Frame

\* config_mode / exit_config_mode, first statement: output = ""; the initial
\* self.check_config_mode().  config_mode goes on when it is false,
\* exit_config_mode when it is true.
MD_Check1(op, to) ==
    /\ md_pc = "idle" /\ Len(md_log) < MaxCalls
    /\ op \in OpsOf(md_class) \ {"check_enable_mode"}
    /\ md_op' = op
    /\ md_writes' = ProbeWrites
    /\ md_mode0' = md_mode
    /\ UNCHANGED <<md_class, md_mode, md_star, md_base>>
    /\ LET r == IF to THEN TIMEOUT
                ELSE CheckRead(md_class, DevAnswer(md_class, md_mode, md_star))
       IN IF r = TIMEOUT
            THEN /\ md_checks' = <<>>
                 /\ MD_TimedOut(op, md_writes', md_mode)
            ELSE LET chk == check_config_mode(md_class, r) IN
                 /\ md_checks' = <<chk>>
                 /\ IF (op = "config_mode") = chk
                      THEN MD_Finish(op, "return", <<>>, md_writes', md_mode)
                      ELSE /\ md_pc' = "write"
                           /\ md_result' = "none"
                           /\ md_output' = <<>>
                           /\ UNCHANGED md_log
    /\ MD_Frame

\* AudiocodeSSH.config_mode: write_channel(normalize_cmd(config_command));
\* sleep; output = read_until_pattern(pattern="").  The device enters
\* configuration mode (ok) from privileged mode, or stays where it is.
MD_ConfigWrite(to, ok) ==
    /\ md_pc = "write" /\ md_op = "config_mode"
    /\ md_writes' = Append(md_writes, "config_command")
    /\ md_mode' = IF ok /\ md_mode = "priv" THEN "config" ELSE md_mode
    /\ UNCHANGED <<md_class, md_star, md_base, md_op, md_checks, md_mode0>>
    /\ IF to
         THEN MD_TimedOut(md_op, md_writes', md_mode0)
         ELSE /\ md_output' = ReadUntilPattern(<<>>,
                                 DevAnswer(md_class, md_mode', md_star))
              /\ md_pc' = "check2"
              /\ UNCHANGED <<md_result, md_log>>
    /\ MD_Frame

\* exit_config_mode: write_channel(normalize_cmd(exit_config)); output =
\* read_until_pattern(pattern=...).  The device leaves configuration mode
\* (ok) or stays in it.
MD_ExitWrite(to, ok) ==
    /\ md_pc = "write" /\ md_op = "exit_config_mode"
    /\ md_writes' = Append(md_writes, "exit_config")
    /\ md_mode' = IF ok /\ md_mode = "config" THEN "priv" ELSE md_mode
    /\ UNCHANGED <<md_class, md_star, md_base, md_op, md_checks, md_mode0>>
    /\ LET r == IF to THEN TIMEOUT
                ELSE ReadUntilPattern(ExitPattern(md_class),
                                      DevAnswer(md_class, md_mode', md_star))
       IN IF r = TIMEOUT
            THEN MD_TimedOut(md_op, md_writes', md_mode0)
            ELSE /\ md_output' = r
                 /\ md_pc' = "check2"
                 /\ UNCHANGED <<md_result, md_log>>
    /\ MD_Frame

\* config_mode / exit_config_mode: the check_config_mode() after the
\* command, then the raise or `return output`
MD_Check2(to) ==
    /\ md_pc = "check2"
    /\ md_writes' = md_writes \o ProbeWrites
    /\ UNCHANGED <<md_class, md_mode, md_star, md_base, md_op, md_mode0>>
    /\ LET r == IF to THEN TIMEOUT
                ELSE CheckRead(md_class, DevAnswer(md_class, md_mode, md_star))
       IN IF r = TIMEOUT
            THEN /\ UNCHANGED md_checks
                 /\ MD_TimedOut(md_op, md_writes', md_mode0)
            ELSE LET chk == check_config_mode(md_class, r) IN
                 /\ md_checks' = Append(md_checks, chk)
                 /\ IF md_op = "config_mode"
                      THEN IF EnterFailed(chk)
                             THEN MD_Finish(md_op, "ValueError", <<>>, md_writes',
                                            md_mode0)
                             ELSE MD_Finish(md_op, "return", md_output, md_writes',
                                            md_mode0)
                      ELSE IF ExitFailed(chk)
                             THEN MD_Finish(md_op, "ValueError", <<>>, md_writes',
                                            md_mode0)
                             ELSE MD_Finish(md_op, "return", md_output, md_writes',
                                            md_mode0)
    /\ MD_Frame

InitMD ==
    /\ FPIdle /\ BPIdle /\ RTIdle /\ ENIdle /\ CFIdle /\ KXIdle /\ CLIdle /\ ALIdle /\ ASIdle /\ SPIdle /\ TLIdle /\ BSIdle /\ CCIdle /\ RDIdle /\ BBIdle /\ FOIdle
    /\ md_class \in MdClasses
    /\ md_mode \in ModesOf(md_class)
    /\ md_star \in BOOLEAN
    /\ md_base = BasePromptOf(md_class)
    /\ md_op = "none" /\ md_pc = "idle" /\ md_mode0 = md_mode
    /\ md_output = <<>> /\ md_writes = <<>> /\ md_checks = <<>>
    /\ md_result = "none" /\ md_log = <<>>

NextMD ==
    \/ \E to \in BOOLEAN : MD_CheckEnable(to)
    \/ \E op \in {"config_mode", "exit_config_mode"}, to \in BOOLEAN :
          MD_Check1(op, to)
    \/ \E to, ok \in BOOLEAN : MD_ConfigWrite(to, ok)
    \/ \E to, ok \in BOOLEAN : MD_ExitWrite(to, ok)
    \/ \E to \in BOOLEAN : MD_Check2(to)

SpecMD == InitMD /\ [][NextMD]_vars

----------------------------------------------------------------------------
(* Sessions set up in one process: _modify_connection_params and the       *)
(* connection of the transport                                             *)

\* Number of sessions of the process.
NumSessions == 3

KxSessions == 1..NumSessions

\* the drivers of the sessions: FortinetSSH and a driver that keeps the
\* inherited _modify_connection_params, which does nothing
KxDrivers == {"FortinetSSH", "AudiocodeSSH"}

\* paramiko's own key-exchange preference (a tuple of the library)
DefaultKex == <<"paramiko-default">>

\* the tuple FortinetSSH._modify_connection_params assigns
FortinetKex == <<"diffie-hellman-group14-sha1",
                 "diffie-hellman-group-exchange-sha1",
                 "diffie-hellman-group-exchange-sha256",
                 "diffie-hellman-group1-sha1">>

\* _modify_connection_params of session s: FortinetSSH assigns the class
\* attribute paramiko.Transport._preferred_kex; the inherited method passes
KX_ModifyParams(s) ==
    /\ kx_pc[s] = "new"
    /\ Transport_preferred_kex' =
          IF kx_driver[s] = "FortinetSSH" THEN FortinetKex
          ELSE Transport_preferred_kex
    /\ kx_pc' = [kx_pc EXCEPT ![s] = "params"]
    /\ UNCHANGED <<kx_driver, kx_used>>
    /\ KX_Frame

\* the transport of session s connects: it negotiates with the _preferred_kex
\* attribute it finds on the Transport class
KX_Connect(s) ==
    /\ kx_pc[s] = "params"
    /\ kx_used' = [kx_used EXCEPT ![s] = Transport_preferred_kex]
    /\ kx_pc' = [kx_pc EXCEPT ![s] = "connected"]
    /\ UNCHANGED <<kx_driver, Transport_preferred_kex>>
    /\ KX_Frame

InitKX ==
    /\ FPIdle /\ BPIdle /\ RTIdle /\ ENIdle /\ CFIdle /\ MDIdle /\ CLIdle /\ ALIdle /\ ASIdle /\ SPIdle /\ TLIdle /\ BSIdle /\ CCIdle /\ RDIdle /\ BBIdle /\ FOIdle
    /\ kx_driver \in [KxSessions -> KxDrivers]
    /\ kx_pc = [s \in KxSessions |-> "new"]
    /\ kx_used = [s \in KxSessions |-> <<>>]
    /\ Transport_preferred_kex = DefaultKex

NextKX ==
    \/ \E s \in KxSessions : KX_ModifyParams(s)
    \/ \E s \in KxSessions : KX_Connect(s)

SpecKX == InitKX /\ [][NextKX]_vars

----------------------------------------------------------------------------
(* cleanup of AudiocodeSSH, AudiocodeBaseSSH, AudiocodeShellSSH, FortinetSSH *)

\* Bound on the configuration levels the device can be in when cleanup starts.
MaxDepth == 2

ClClasses == {"AudiocodeSSH", "AudiocodeBaseSSH", "AudiocodeShellSSH",
              "FortinetSSH"}

\* FortinetSSH.cleanup: enable_paging_commands
enable_paging_commands ==
    <<"config global", "config system console", "set output more", "end", "end">>

\* exit_config default of the class's exit_config_mode
ExitConfigCmd(cls) ==
    CASE cls = "FortinetSSH"       -> "end"
      [] cls = "AudiocodeShellSSH" -> ".."
      [] OTHER                     -> "exit"

\* the final command of cleanup: "exit" + RETURN, FortinetSSH command="quit"
FinalCmd(cls) == IF cls = "FortinetSSH" THEN "quit" ELSE "exit"

\* where a read of exit_config_mode raises: 0 nowhere, 1 in the initial
\* check_config_mode, 2 in the read after the exit command, 3 in the check
\* after it
ReadFailures == 0..3

\* check_config_mode of FortinetSSH and of AudiocodeShellSSH reads with
\* _read_channel_timing, which has no timeout to raise; only the
\* read_until_pattern after the exit command can fail
ReadFailuresOf(cls) ==
    IF cls \in {"FortinetSSH", "AudiocodeShellSSH"} THEN {0, 2} ELSE ReadFailures

\* one run of exit_config_mode with the device depth levels deep: the writes
\* it makes, the depth it leaves and its outcome
exit_config_mode(cls, depth, fail) ==
    IF fail = 1
      THEN [writes |-> <<"RETURN">>, depth |-> depth, outcome |-> "ReadTimeout"]
    ELSE IF depth = 0
      THEN [writes |-> <<"RETURN">>, depth |-> depth, outcome |-> "return"]
    ELSE IF fail = 2
      THEN [writes |-> <<"RETURN", ExitConfigCmd(cls)>>, depth |-> depth - 1,
            outcome |-> "ReadTimeout"]
    ELSE [writes |-> <<"RETURN", ExitConfigCmd(cls), "RETURN">>,
          depth |-> depth - 1,
          outcome |-> IF fail = 3 THEN "ReadTimeout"
                      ELSE IF depth - 1 > 0 THEN "ValueError" ELSE "return"]

\* the device's depth after a line: a config command that is accepted (ok)
\* opens a level, end closes one
DepthAfter(depth, cmd, ok) ==
    IF cmd \in {"config global", "config system console"}
      THEN (IF ok /\ depth < MaxDepth + 2 THEN depth + 1 ELSE depth)
    ELSE IF cmd = "end" THEN (IF depth > 0 THEN depth - 1 ELSE 0)
    ELSE depth

\* `except Exception: pass`
SwallowedBy(outcome) == outcome # "return"

\* cleanup, first statement.  FortinetSSH starts the send_config_set of
\* enable_paging_commands, the others go to their try block.
CL_Start ==
    /\ cl_pc = "start"
    /\ cl_pc' = IF cl_class = "FortinetSSH" THEN "paging" ELSE "try"
    /\ UNCHANGED <<cl_class, cl_depth, cl_idx, cl_writes, cl_caught, cl_fin,
                   cl_result>>
    /\ CL_Frame

\* FortinetSSH.cleanup: send_config_set(enable_paging_commands, True, ...),
\* one command written
CL_PagingCmd(ok) ==
    /\ cl_pc = "paging"
    /\ cl_writes' = Append(cl_writes, enable_paging_commands[cl_idx])
    /\ cl_depth' = DepthAfter(cl_depth, enable_paging_commands[cl_idx], ok)
    /\ cl_idx' = cl_idx + 1
    /\ cl_pc' = IF cl_idx' > Len(enable_paging_commands) THEN "pagingexit"
                                                         ELSE "paging"
    /\ UNCHANGED <<cl_class, cl_caught, cl_fin, cl_result>>
    /\ CL_Frame

\* FortinetSSH.cleanup: the exit_config_mode() that ends the send_config_set
\* (exit_config_mode=True); what it raises leaves cleanup, the call is
\* outside the try block
CL_PagingExit(fail) ==
    /\ cl_pc = "pagingexit"
    /\ fail \in ReadFailuresOf(cl_class)
    /\ LET r == exit_config_mode(cl_class, cl_depth, fail) IN
         /\ cl_writes' = cl_writes \o r.writes
         /\ cl_depth' = r.depth
         /\ IF r.outcome = "return"
              THEN cl_pc' = "try" /\ UNCHANGED cl_result
              ELSE cl_pc' = "done" /\ cl_result' = r.outcome
    /\ UNCHANGED <<cl_class, cl_idx, cl_caught, cl_fin>>
    /\ CL_Frame

\* the try block: self.exit_config_mode(), for FortinetSSH `if
\* self.check_config_mode(pattern=""): self.exit_config_mode()`
CL_Try(fail) ==
    /\ cl_pc = "try"
    /\ fail \in ReadFailuresOf(cl_class)
    /\ LET probe == IF cl_class = "FortinetSSH" THEN <<"RETURN">> ELSE <<>>
           r == IF cl_class = "FortinetSSH" /\ cl_depth = 0
                  THEN [writes |-> <<>>, depth |-> cl_depth, outcome |-> "return"]
                  ELSE exit_config_mode(cl_class, cl_depth, fail)
           through == r.outcome = "return" \/ SwallowedBy(r.outcome)
       IN
         /\ cl_class = "FortinetSSH" /\ cl_depth = 0 => fail = 0
         /\ cl_writes' = cl_writes \o probe \o r.writes
         /\ cl_depth' = r.depth
         /\ cl_caught' = IF SwallowedBy(r.outcome) THEN r.outcome ELSE "none"
         /\ cl_pc' = IF through THEN "final" ELSE "done"
         /\ cl_result' = IF through THEN cl_result ELSE r.outcome
    /\ UNCHANGED <<cl_class, cl_idx, cl_fin>>
    /\ CL_Frame

\* self._session_log_fin = True; self.write_channel("exit" + self.RETURN)
CL_Final ==
    /\ cl_pc = "final"
    /\ cl_fin' = TRUE
    /\ cl_writes' = Append(cl_writes, FinalCmd(cl_class))
    /\ cl_result' = "return"
    /\ cl_pc' = "done"
    /\ UNCHANGED <<cl_class, cl_depth, cl_idx, cl_caught>>
    /\ CL_Frame

InitCL ==
    /\ FPIdle /\ BPIdle /\ RTIdle /\ ENIdle /\ CFIdle /\ MDIdle /\ KXIdle /\ ALIdle /\ ASIdle /\ SPIdle /\ TLIdle /\ BSIdle /\ CCIdle /\ RDIdle /\ BBIdle /\ FOIdle
    /\ cl_class \in ClClasses
    /\ cl_pc = "start"
    /\ cl_depth \in 0..MaxDepth
    /\ cl_idx = 1 /\ cl_writes = <<>> /\ cl_caught = "none" /\ cl_fin = FALSE
    /\ cl_result = "none"

NextCL ==
    \/ CL_Start
    \/ \E ok \in BOOLEAN : CL_PagingCmd(ok)
    \/ \E fail \in ReadFailures : CL_PagingExit(fail)
    \/ \E fail \in ReadFailures : CL_Try(fail)
    \/ CL_Final

SpecCL == InitCL /\ [][NextCL]_vars

----------------------------------------------------------------------------
(* Properties of cleanup *)

\* C21: in every execution of cleanup, whether its earlier steps succeed or
\* raise, the last write to the channel is the final exit command.
C21_CleanupEndsWithExit ==
    cl_pc = "done" =>
        /\ cl_writes # <<>>
        /\ cl_writes[Len(cl_writes)] = FinalCmd(cl_class)

----------------------------------------------------------------------------
(* CiscoAsaSSH.asa_login *)

\* max_attempts = 10
max_attempts == 10

L_username == <<"U", "s", "e", "r", "n", "a", "m", "e", ":", " ">>
L_password == <<"P", "a", "s", "s", "w", "o", "r", "d", ":", " ">>
L_priv     == <<"h", "o", "s", "t", "#", " ">>
L_user     == <<"h", "o", "s", "t", ">", " ">>
L_pwpriv   == <<"P", "a", "s", "s", "w", "o", "r", "d", ":", " ", "\r", "\n",
                "h", "o", "s", "t", "#", " ">>
L_invalid  == <<"I", "n", "v", "a", "l", "i", "d", "\r", "\n">>

\* what one read_channel() can give during the login dialogue
LoginTexts == {<<>>, L_username, L_password, L_priv, L_user, L_pwpriv, L_invalid}

AsaUsernames == {"admin", "ops"}

\* mutant of AsaReply: '#' is looked for first
AsaReplyHashFirst(output, username) ==
    IF Contains(output, <<"#">>) THEN "return"
    ELSE IF Contains(output, <<"s", "e", "r", "n", "a", "m", "e">>) THEN username
    ELSE IF Contains(output, <<"s", "s", "w", "o", "r", "d">>) THEN "password"
    ELSE "login"

\* the if/elif chain of the loop body: what is written after a read, or
\* "return"
AsaReply(output, username) ==
    IF Contains(output, <<"s", "e", "r", "n", "a", "m", "e">>) THEN username
    ELSE IF Contains(output, <<"s", "s", "w", "o", "r", "d">>) THEN "password"
    ELSE IF Contains(output, <<"#">>) THEN "return"
    ELSE "login"

\* one pass of `while i <= max_attempts`: the read and the branch taken
AL_Attempt(output) ==
    /\ al_pc = "loop"
    /\ al_i <= max_attempts
    /\ al_output' = output
    /\ al_nreads' = al_nreads + 1
    /\ LET reply == AsaReply(output, al_username) IN
         IF reply = "return"
           THEN /\ al_pc' = "done" /\ al_result' = "return"
                /\ UNCHANGED <<al_i, al_nwrites, al_last_write>>
           ELSE /\ al_nwrites' = al_nwrites + 1
                /\ al_last_write' = reply
                /\ al_i' = al_i + 1
                /\ UNCHANGED <<al_pc, al_result>>
    /\ UNCHANGED al_username
    /\ AL_Frame

\* the loop ran out: raise NetmikoAuthenticationException(msg)
AL_GiveUp ==
    /\ al_pc = "loop"
    /\ al_i > max_attempts
    /\ al_pc' = "done"
    /\ al_result' = "NetmikoAuthenticationException"
    /\ UNCHANGED <<al_username, al_i, al_output, al_nreads, al_nwrites,
                   al_last_write>>
    /\ AL_Frame

\* i = 1; self.write_channel("login" + self.RETURN)
InitAL ==
    /\ FPIdle /\ BPIdle /\ RTIdle /\ ENIdle /\ CFIdle /\ MDIdle /\ KXIdle /\ CLIdle /\ ASIdle /\ SPIdle /\ TLIdle /\ BSIdle /\ CCIdle /\ RDIdle /\ BBIdle /\ FOIdle
    /\ al_username \in AsaUsernames
    /\ al_pc = "loop" /\ al_i = 1 /\ al_output = <<>>
    /\ al_nreads = 0 /\ al_nwrites = 1 /\ al_last_write = "login"
    /\ al_result = "none"

NextAL ==
    \/ \E output \in LoginTexts : AL_Attempt(output)
    \/ AL_GiveUp

SpecAL == InitAL /\ [][NextAL]_vars

\* the loop is not suspended forever between two passes
SpecALFair == SpecAL /\ WF_vars(NextAL)

----------------------------------------------------------------------------
(* Properties of asa_login *)

ReturningRead(output) ==
    /\ Contains(output, <<"#">>)
    /\ ~Contains(output, <<"s", "e", "r", "n", "a", "m", "e">>)
    /\ ~Contains(output, <<"s", "s", "w", "o", "r", "d">>)

AsaLoginBounded ==
    /\ al_nreads <= max_attempts
    /\ al_result = "return" => ReturningRead(al_output)
    /\ al_result = "NetmikoAuthenticationException" =>
         al_nreads = max_attempts /\ ~ReturningRead(al_output)
    /\ al_result # "return" =>
         /\ al_nwrites = al_nreads + 1
         /\ al_last_write \in {al_username, "password", "login"}
    /\ al_result = "return" => al_nwrites = al_nreads

\* C22: asa_login reads the channel at most 10 times and always ends; it
\* returns only on a read that has '#' and neither 'sername' nor 'ssword',
\* raises NetmikoAuthenticationException when 10 reads went by without such
\* a read, and after each read it does not return on it writes exactly one
\* of the username, the password or 'login'.
C22_LoginBoundedAndEnds == []AsaLoginBounded /\ <>(al_pc = "done")

\* ten reads without a prompt, a write after each, then the exception
C22_Witness ==
    /\ al_result = "NetmikoAuthenticationException"
    /\ al_nreads = max_attempts
    /\ al_nwrites = max_attempts + 1
    /\ al_last_write = "password"

----------------------------------------------------------------------------
(* CiscoAsaSSH: send_command, send_command_timing, set_base_prompt *)

\* Bound on the number of calls made on one session.
MaxAsaCalls == 3

K_changeto == <<"c", "h", "a", "n", "g", "e", "t", "o">>
K_toctxa   == <<"c", "h", "a", "n", "g", "e", "t", "o", " ", "c", "o", "n", "t",
                "e", "x", "t", " ", "c", "t", "x", "a">>
K_toadmin  == <<"c", "h", "a", "n", "g", "e", "t", "o", " ", "c", "o", "n", "t",
                "e", "x", "t", " ", "a", "d", "m", "i", "n">>
K_show     == <<"s", "h", "o", "w", " ", "v", "e", "r", "s", "i", "o", "n">>
K_conft    == <<"c", "o", "n", "f", "i", "g", "u", "r", "e", " ", "t", "e", "r",
                "m", "i", "n", "a", "l">>
K_end      == <<"e", "n", "d">>

AsaCommands == {K_toctxa, K_toadmin, K_show, K_conft, K_end}
AsaContexts == {"admin", "ctxa"}
AsaOps == {"send_command", "send_command_timing", "set_base_prompt"}

\* the prompt of a multi-context ASA
AsaPrompt(ctx, cfg) ==
    (IF ctx = "admin" THEN <<"f", "w", "/", "a", "d", "m", "i", "n">>
                      ELSE <<"f", "w", "/", "c", "t", "x", "a">>)
    \o (IF cfg THEN <<"(", "c", "o", "n", "f", "i", "g", ")">> ELSE <<>>)
    \o <<"#">>

\* the context and the mode of the device after a command line
AsaContextAfter(ctx, cmd) ==
    IF cmd = K_toctxa THEN "ctxa" ELSE IF cmd = K_toadmin THEN "admin" ELSE ctx

AsaConfigAfter(cfg, cmd) ==
    IF cmd = K_conft THEN TRUE ELSE IF cmd = K_end THEN FALSE ELSE cfg

\* CiscoAsaSSH.find_prompt on a device that answers every RETURN with the
\* prompt p: the loop breaks on a valid prompt and raises when loops == 20
RECURSIVE find_prompt_steady(_, _, _)
find_prompt_steady(d, p, n) ==
    IF n = raise_at(d) THEN FAILED
    ELSE IF ValidPrompt(d, TakeLastLine(Strip(p))) THEN TakeLastLine(Strip(p))
    ELSE find_prompt_steady(d, p, n + 1)

\* re.search(r"(.*)\(conf.*", s).group(1): what precedes the last "(conf"
BeforeConf(s) ==
    LET hits == {i \in 1..Len(s) :
                    i + 4 <= Len(s)
                    /\ SubSeq(s, i, i + 4) = <<"(", "c", "o", "n", "f">>}
    IN SubSeq(s, 1, (CHOOSE i \in hits : \A j \in hits : j <= i) - 1)

\* self.find_prompt() as set_base_prompt calls it
CiscoAsaSSH_find_prompt(p) == find_prompt_steady("CiscoAsaSSH", p, 0)

\* CiscoAsaSSH.set_base_prompt on a device whose prompt is p: the inherited
\* set_base_prompt (find_prompt, terminator test, base_prompt = prompt[:-1]),
\* then the "(conf" match; ret is the value returned, <<"None">> for None
CiscoAsaSSH_set_base_prompt(p, base) ==
    LET found == CiscoAsaSSH_find_prompt(p) IN
    IF found = FAILED
      THEN [result |-> "ValueError", base |-> base, ret |-> <<>>]
    ELSE IF <<found[Len(found)]>> \notin {<<"#">>, <<">">>}
      THEN [result |-> "ValueError", base |-> base, ret |-> <<>>]
    ELSE LET cur_base_prompt == DropLast(found, 1) IN
         IF Contains(cur_base_prompt, <<"(", "c", "o", "n", "f">>)
           THEN [result |-> "return", base |-> BeforeConf(cur_base_prompt),
                 ret |-> BeforeConf(cur_base_prompt)]
           ELSE [result |-> "return", base |-> cur_base_prompt,
                 ret |-> <<"None">>]

\* mutant of NeedsBasePrompt: the base prompt is never refreshed
NeedsBasePromptNever(cmd) == FALSE

\* if "changeto" in command_string
NeedsBasePrompt(cmd) == Contains(cmd, K_changeto)

\* a method of the session is called
AS_Call(op, cmd) ==
    /\ as_pc = "idle"
    /\ as_calls < MaxAsaCalls
    /\ op = "set_base_prompt" => cmd = <<>>
    /\ op # "set_base_prompt" => cmd \in AsaCommands
    /\ as_op' = op /\ as_cmd' = cmd
    /\ as_base0' = as_base
    /\ as_cfg0' = as_cfg
    /\ as_log' = <<>> /\ as_ret' = <<>> /\ as_result' = "none"
    /\ as_calls' = as_calls + 1
    /\ as_pc' = IF op = "set_base_prompt" THEN "setbase" ELSE "super"
    /\ UNCHANGED <<as_ctx, as_cfg, as_base>>
    /\ AS_Frame

\* output = super().send_command(...) / super().send_command_timing(...):
\* the command is written, the device acts on it and its output is read;
\* ok is FALSE when the inherited method raises
AS_Super(ok) ==
    /\ as_pc = "super"
    /\ as_ctx' = AsaContextAfter(as_ctx, as_cmd)
    /\ as_cfg' = AsaConfigAfter(as_cfg, as_cmd)
    /\ IF ~ok
         THEN /\ as_op = "send_command"
              /\ as_result' = "ReadTimeout" /\ as_pc' = "done"
              /\ UNCHANGED <<as_log, as_cfg0>>
         ELSE /\ as_log' = Append(as_log, "output")
              /\ as_cfg0' = as_cfg'
              /\ IF NeedsBasePrompt(as_cmd)
                   THEN as_pc' = "setbase" /\ UNCHANGED as_result
                   ELSE as_pc' = "done" /\ as_result' = "return"
    /\ UNCHANGED <<as_base, as_op, as_cmd, as_base0, as_ret, as_calls>>
    /\ AS_Frame

\* self.set_base_prompt(), called directly or after a changeto
AS_SetBasePrompt ==
    /\ as_pc = "setbase"
    /\ LET r == CiscoAsaSSH_set_base_prompt(AsaPrompt(as_ctx, as_cfg), as_base) IN
         /\ as_base' = r.base
         /\ as_ret' = r.ret
         /\ as_result' = r.result
    /\ as_log' = Append(as_log, "set_base_prompt")
    /\ as_pc' = "done"
    /\ UNCHANGED <<as_ctx, as_cfg, as_op, as_cmd, as_base0, as_cfg0, as_calls>>
    /\ AS_Frame

\* the caller goes on to the next call
AS_Next ==
    /\ as_pc = "done"
    /\ as_pc' = "idle"
    /\ UNCHANGED <<as_ctx, as_cfg, as_base, as_op, as_cmd, as_base0, as_cfg0,
                   as_log, as_ret, as_result, as_calls>>
    /\ AS_Frame

\* a session after session_preparation: base_prompt was set at the exec prompt
InitAS ==
    /\ FPIdle /\ BPIdle /\ RTIdle /\ ENIdle /\ CFIdle /\ MDIdle /\ KXIdle /\ SPIdle /\ TLIdle /\ BSIdle /\ CCIdle /\ RDIdle /\ BBIdle /\ FOIdle
    /\ CLIdle /\ ALIdle /\ SPIdle /\ TLIdle /\ BSIdle /\ CCIdle /\ RDIdle /\ BBIdle /\ FOIdle
    /\ as_ctx \in AsaContexts
    /\ as_cfg = FALSE
    /\ as_base = DropLast(AsaPrompt(as_ctx, FALSE), 1)
    /\ as_op = "none" /\ as_cmd = <<>> /\ as_pc = "idle"
    /\ as_base0 = as_base /\ as_cfg0 = FALSE
    /\ as_log = <<>> /\ as_ret = <<>> /\ as_result = "none" /\ as_calls = 0

NextAS ==
    \/ \E op \in AsaOps, cmd \in AsaCommands \cup {<<>>} : AS_Call(op, cmd)
    \/ \E ok \in BOOLEAN : AS_Super(ok)
    \/ AS_SetBasePrompt
    \/ AS_Next

SpecAS == InitAS /\ [][NextAS]_vars

----------------------------------------------------------------------------
(* Properties of the CiscoAsaSSH commands *)

\* C23: when send_command or send_command_timing returns and its command has
\* 'changeto' in it, set_base_prompt ran once, after the output was read, and
\* base_prompt is the prompt of the context the device is now in; for a
\* command without 'changeto' base_prompt is what it was.
C23_ChangetoRefreshesBasePrompt ==
    (/\ as_pc = "done"
     /\ as_op \in {"send_command", "send_command_timing"}
     /\ as_result = "return") =>
        IF Contains(as_cmd, K_changeto)
          THEN /\ as_log = <<"output", "set_base_prompt">>
               /\ as_base = DropLast(AsaPrompt(as_ctx, FALSE), 1)
          ELSE /\ as_log = <<"output">>
               /\ as_base = as_base0

\* a changeto to the other context returned and base_prompt followed it
C23_Witness ==
    /\ as_pc = "done" /\ as_op = "send_command_timing"
    /\ as_cmd = K_toctxa /\ as_result = "return"
    /\ as_base0 = <<"f", "w", "/", "a", "d", "m", "i", "n">>
    /\ as_base = <<"f", "w", "/", "c", "t", "x", "a">>

\* C24: set_base_prompt called while the device is in configuration mode
\* completes and leaves in base_prompt the text before '(conf'.
C24_ConfigPromptStripped ==
    (/\ as_pc = "done"
     /\ as_log # <<>> /\ as_log[Len(as_log)] = "set_base_prompt"
     /\ as_cfg0) =>
        /\ as_result = "return"
        /\ as_base = BeforeConf(AsaPrompt(as_ctx, as_cfg))

\* C37: in every successful execution CiscoAsaSSH.set_base_prompt returns
\* the value it leaves in self.base_prompt, when the found prompt has '(conf'
\* in it and when it has not.
C37_ReturnsBasePrompt ==
    (/\ as_pc = "done"
     /\ as_log # <<>> /\ as_log[Len(as_log)] = "set_base_prompt"
     /\ as_result = "return") => as_ret = as_base

----------------------------------------------------------------------------
(* CiscoAsaSSH.session_preparation *)

\* what a step that talks to the device can end with
StepOutcomes == {"ok", "ValueError", "ReadTimeout"}

\* one of the calls before the width: _test_channel_read(),
\* set_base_prompt(), then enable() or asa_login()
SP_Prepare(outcome) ==
    /\ sp_pc \in {"test_channel_read", "set_base_prompt", "login"}
    /\ sp_pc = "test_channel_read" => outcome # "ValueError"
    /\ sp_steps' = Append(sp_steps,
                          IF sp_pc = "login"
                            THEN (IF sp_secret THEN "enable" ELSE "asa_login")
                            ELSE sp_pc)
    /\ IF outcome = "ok"
         THEN /\ sp_pc' = CASE sp_pc = "test_channel_read" -> "set_base_prompt"
                            [] sp_pc = "set_base_prompt" -> "login"
                            [] sp_pc = "login" -> "width"
              /\ UNCHANGED sp_result
         ELSE /\ sp_pc' = "done"
              /\ sp_result' = IF sp_pc = "login" /\ ~sp_secret
                                 /\ outcome = "ValueError"
                                THEN "NetmikoAuthenticationException"
                                ELSE outcome
    /\ UNCHANGED <<sp_secret, allow_auto_change, global_cmd_verify, sp_width>>
    /\ SP_Frame

\* if self.allow_auto_change: try: self.send_config_set("terminal width 511")
\* except ValueError: pass
SP_Width(outcome) ==
    /\ sp_pc = "width"
    /\ allow_auto_change
    /\ sp_steps' = Append(sp_steps, "send_config_set")
    /\ IF outcome = "ok"
         THEN sp_width' = "set" /\ sp_pc' = "disable_paging"
              /\ UNCHANGED sp_result
         ELSE IF outcome = "ValueError"
         THEN sp_width' = "ValueError" /\ sp_pc' = "disable_paging"
              /\ UNCHANGED sp_result
         ELSE sp_width' = outcome /\ sp_pc' = "done" /\ sp_result' = outcome
    /\ UNCHANGED <<sp_secret, allow_auto_change, global_cmd_verify>>
    /\ SP_Frame

\* else: self.global_cmd_verify = False
SP_NoWidth ==
    /\ sp_pc = "width"
    /\ ~allow_auto_change
    /\ global_cmd_verify' = "False"
    /\ sp_pc' = "disable_paging"
    /\ UNCHANGED <<sp_secret, allow_auto_change, sp_width, sp_steps, sp_result>>
    /\ SP_Frame

\* self.disable_paging(command="terminal pager 0"); clear_buffer()
SP_Paging(outcome) ==
    /\ sp_pc = "disable_paging"
    /\ outcome # "ValueError"
    /\ sp_steps' = Append(sp_steps, "disable_paging")
    /\ sp_pc' = "done"
    /\ sp_result' = IF outcome = "ok" THEN "return" ELSE outcome
    /\ UNCHANGED <<sp_secret, allow_auto_change, global_cmd_verify, sp_width>>
    /\ SP_Frame

InitSP ==
    /\ FPIdle /\ BPIdle /\ RTIdle /\ ENIdle /\ CFIdle /\ MDIdle /\ KXIdle /\ TLIdle /\ BSIdle /\ CCIdle /\ RDIdle /\ BBIdle /\ FOIdle
    /\ CLIdle /\ ALIdle /\ ASIdle /\ TLIdle /\ BSIdle /\ CCIdle /\ RDIdle /\ BBIdle /\ FOIdle
    /\ sp_secret \in BOOLEAN
    /\ allow_auto_change \in BOOLEAN
    /\ global_cmd_verify \in {"None", "True", "False"}
    /\ sp_pc = "test_channel_read"
    /\ sp_width = "no" /\ sp_steps = <<>> /\ sp_result = "none"

NextSP ==
    \/ \E outcome \in StepOutcomes : SP_Prepare(outcome)
    \/ \E outcome \in StepOutcomes : SP_Width(outcome)
    \/ SP_NoWidth
    \/ \E outcome \in StepOutcomes : SP_Paging(outcome)

SpecSP == InitSP /\ [][NextSP]_vars

----------------------------------------------------------------------------
(* Properties of CiscoAsaSSH.session_preparation *)

\* C28: when session_preparation has completed and the terminal width was not
\* set to 511 (allow_auto_change false, or the config set raised ValueError),
\* global_cmd_verify is False; and a ValueError of the width config set is
\* never the outcome of session_preparation.
C28_NoWidthDisablesVerify ==
    /\ (sp_pc = "done" /\ sp_result = "return" /\ sp_width # "set") =>
          global_cmd_verify = "False"
    /\ (sp_pc = "done" /\ sp_width = "ValueError") => sp_result # "ValueError"

----------------------------------------------------------------------------
(* AudiocodeSSH.telnet_login *)

\* while count < 15
dialog_reads == 15

G_username == <<"U", "s", "e", "r", "n", "a", "m", "e", ":", " ">>
G_password == <<"P", "a", "s", "s", "w", "o", "r", "d", ":", " ">>
G_user     == <<"h", "o", "s", "t", ">", " ">>
G_priv     == <<"h", "o", "s", "t", "#", " ">>
G_dialog   == <<"e", "n", "t", "e", "r", " ", "t", "h", "e", " ",
                "i", "n", "i", "t", "i", "a", "l", " ", "c", "o", "n", "f", "i",
                "g", "u", "r", "a", "t", "i", "o", "n", " ", "d", "i", "a", "l",
                "o", "g", "?", " ", "[", "y", "e", "s", "/", "n", "o", "]", ":",
                " ">>
G_started  == <<"P", "r", "e", "s", "s", " ", "R", "E", "T", "U", "R", "N", " ",
                "t", "o", " ", "g", "e", "t", " ", "s", "t", "a", "r", "t", "e",
                "d">>
G_noneset  == <<"P", "a", "s", "s", "w", "o", "r", "d", " ", "r", "e", "q", "u",
                "i", "r", "e", "d", ",", " ", "b", "u", "t", " ", "n", "o", "n",
                "e", " ", "s", "e", "t">>
G_banner   == <<"W", "e", "l", "c", "o", "m", "e", "\r", "\n">>

\* what one read_channel() can give during the login dialogue
TelnetTexts ==
    {<<>>, G_username, G_password, G_user, G_priv, G_dialog, G_started,
     G_noneset, G_banner}

\* while the device waits after "no" it sends nothing, its banner or the
\* invitation to press RETURN
DialogTexts == {<<>>, G_banner, G_started}

\* re.search(username_pattern, output, flags=re.I) with
\* username_pattern = (?:user:|username|login|user name)
UsernameAsked(output) ==
    \/ SearchIgnoreCase(output, <<"u", "s", "e", "r", ":">>)
    \/ SearchIgnoreCase(output, <<"u", "s", "e", "r", "n", "a", "m", "e">>)
    \/ SearchIgnoreCase(output, <<"l", "o", "g", "i", "n">>)
    \/ SearchIgnoreCase(output, <<"u", "s", "e", "r", " ", "n", "a", "m", "e">>)

\* re.search(pwd_pattern, output, flags=re.I) with pwd_pattern = assword
PasswordAsked(output) ==
    SearchIgnoreCase(output, <<"a", "s", "s", "w", "o", "r", "d">>)

\* "Check for device with no password configured" and "Check if proper data
\* received".  NetMikoAuthenticationException is not a name of the module
\* (it is neither imported nor defined), so the raise statement raises
\* NameError.  In the prompt test the first two searches are for ">" and "#";
\* when neither matches, re.search(alt_prompt_terminator1 = "*>", ...) is
\* evaluated and "*>" does not compile: re.error.  The statements after the
\* test (write TELNET_RETURN, i += 1, the last try) are never reached.
TailStage(output) ==
    IF Contains(output, <<"a", "s", "s", "w", "o", "r", "d", " ", "r", "e", "q",
                          "u", "i", "r", "e", "d", ",", " ", "b", "u", "t", " ",
                          "n", "o", "n", "e", " ", "s", "e", "t">>)
      THEN [next |-> "done", writes |-> <<>>, closed |-> TRUE,
            result |-> "NameError"]
    ELSE IF Contains(output, <<">">>) \/ Contains(output, <<"#">>)
      THEN [next |-> "done", writes |-> <<>>, closed |-> FALSE,
            result |-> "return"]
    ELSE [next |-> "done", writes |-> <<>>, closed |-> FALSE,
          result |-> "re.error"]

\* "Support direct telnet through terminal server"
DialogStage(output) ==
    IF Contains(output, <<"i", "n", "i", "t", "i", "a", "l", " ", "c", "o", "n",
                          "f", "i", "g", "u", "r", "a", "t", "i", "o", "n", " ",
                          "d", "i", "a", "l", "o", "g", "?", " ", "[", "y", "e",
                          "s", "/", "n", "o", "]", ":", " ">>)
      THEN [next |-> "dialog", writes |-> <<"no">>, closed |-> FALSE,
            result |-> "none"]
      ELSE TailStage(output)

\* "Search for password pattern / send password"
PwdStage(output) ==
    IF PasswordAsked(output)
      THEN [next |-> "pwd_read", writes |-> <<"password">>, closed |-> FALSE,
            result |-> "none"]
      ELSE DialogStage(output)

\* the loop body goes on from a stage
TL_Goto(stage) ==
    /\ tl_pc' = stage.next
    /\ tl_writes' = tl_writes \o stage.writes
    /\ tl_closed' = stage.closed
    /\ tl_result' = stage.result
    /\ tl_count' = 0

\* output = self.read_channel(); return_msg += output; the username test
TL_Read(output) ==
    /\ tl_pc = "loop"
    /\ tl_output' = output
    /\ return_msg' = return_msg \o output
    /\ IF UsernameAsked(output)
         THEN /\ tl_writes' = Append(tl_writes, "username")
              /\ tl_pc' = "user_read"
              /\ UNCHANGED <<tl_count, tl_closed, tl_result>>
         ELSE TL_Goto(PwdStage(output))
    /\ TL_Frame

\* the read after the username was written
TL_UserRead(output) ==
    /\ tl_pc = "user_read"
    /\ tl_output' = output
    /\ return_msg' = return_msg \o output
    /\ TL_Goto(PwdStage(output))
    /\ TL_Frame

\* the read after the password was written, then
\* re.search(pri_prompt_terminator, ...): pri_prompt_terminator is not a name
\* of the function (its parameters are pri_prompt_terminator1 and 2), so the
\* test raises NameError whatever was read
TL_PwdRead(output) ==
    /\ tl_pc = "pwd_read"
    /\ tl_output' = output
    /\ return_msg' = return_msg \o output
    /\ tl_pc' = "done"
    /\ tl_result' = "NameError"
    /\ UNCHANGED <<tl_count, tl_writes, tl_closed>>
    /\ TL_Frame

\* while count < 15: one read while waiting for "ress RETURN to get started"
TL_DialogRead(output) ==
    /\ tl_pc = "dialog"
    /\ tl_count < dialog_reads
    /\ return_msg' = return_msg \o output
    /\ IF Contains(output, <<"r", "e", "s", "s", " ", "R", "E", "T", "U", "R",
                             "N", " ", "t", "o", " ", "g", "e", "t", " ", "s",
                             "t", "a", "r", "t", "e", "d">>)
         THEN /\ tl_output' = <<>>
              /\ TL_Goto(TailStage(<<>>))
         ELSE /\ tl_output' = output
              /\ tl_count' = tl_count + 1
              /\ UNCHANGED <<tl_pc, tl_writes, tl_closed, tl_result>>
    /\ TL_Frame

\* the while loop ran out
TL_DialogEnd ==
    /\ tl_pc = "dialog"
    /\ tl_count >= dialog_reads
    /\ TL_Goto(TailStage(tl_output))
    /\ UNCHANGED <<tl_output, return_msg>>
    /\ TL_Frame

\* a read raises EOFError: self.remote_conn.close(), then the raise of the
\* undefined NetMikoAuthenticationException
TL_EOF ==
    /\ tl_pc \in {"loop", "user_read", "pwd_read", "dialog"}
    /\ tl_pc = "dialog" => tl_count < dialog_reads
    /\ tl_closed' = TRUE
    /\ tl_result' = "NameError"
    /\ tl_pc' = "done"
    /\ UNCHANGED <<tl_count, tl_output, return_msg, tl_writes>>
    /\ TL_Frame

\* output = ""; return_msg = ""; i = 1
InitTL ==
    /\ FPIdle /\ BPIdle /\ RTIdle /\ ENIdle /\ CFIdle /\ MDIdle /\ KXIdle /\ BSIdle /\ CCIdle /\ RDIdle /\ BBIdle /\ FOIdle
    /\ CLIdle /\ ALIdle /\ ASIdle /\ SPIdle /\ BSIdle /\ CCIdle /\ RDIdle /\ BBIdle /\ FOIdle
    /\ tl_pc = "loop" /\ tl_count = 0 /\ tl_output = <<>> /\ return_msg = <<>>
    /\ tl_writes = <<>> /\ tl_closed = FALSE /\ tl_result = "none"

NextTL ==
    \/ \E output \in TelnetTexts : TL_Read(output)
    \/ \E output \in TelnetTexts : TL_UserRead(output)
    \/ \E output \in TelnetTexts : TL_PwdRead(output)
    \/ \E output \in DialogTexts : TL_DialogRead(output)
    \/ TL_DialogEnd
    \/ TL_EOF

SpecTL == InitTL /\ [][NextTL]_vars

----------------------------------------------------------------------------
(* Properties of telnet_login *)

\* C25: telnet_login ends in one of two ways: it returns the accumulated
\* text after a read with a prompt terminator in it, or it closes the
\* connection and fails with the authentication exception; no other kind of
\* error escapes.
C25_ReturnsOrAuthFailure ==
    tl_pc = "done" =>
        \/ /\ tl_result = "return"
           /\ Contains(tl_output, <<">">>) \/ Contains(tl_output, <<"#">>)
        \/ /\ tl_result = "NetMikoAuthenticationException"
           /\ tl_closed

----------------------------------------------------------------------------
(* AudiocodeBaseSSH.send_config_set *)

\* config_mode_command: None or a command
NoCommand == <<"None">>
K_cfgsys  == <<"c", "o", "n", "f", "i", "g", "u", "r", "e", " ", "s", "y", "s",
               "t", "e", "m">>

\* the calls: config_commands, exit_config_mode, config_mode_command,
\* cmd_verify, enter_config_mode (delay_factor, max_loops, strip_prompt and
\* strip_command are handed on as they are and change no channel operation)
BsCalls ==
    [config_commands : {<<C_a>>, <<C_a, C_b>>},
     exit_config_mode : BOOLEAN,
     config_mode_command : {NoCommand, K_cfgsys},
     cmd_verify : BOOLEAN,
     enter_config_mode : BOOLEAN]

\* mutant of MustRefuse: refuses whenever no command is given
MustRefuseNoCommand(a) == a.config_mode_command = NoCommand

\* if config_mode_command == None and enter_config_mode == True
MustRefuse(a) == a.config_mode_command = NoCommand /\ a.enter_config_mode

\* the override: raise ValueError, or return super().send_config_set(...)
\* with every argument passed by keyword
BS_Call ==
    /\ bs_pc = "call"
    /\ IF MustRefuse(bs_args)
         THEN /\ bs_result' = "ValueError" /\ bs_pc' = "done"
              /\ UNCHANGED bs_super
         ELSE /\ bs_super' = bs_args
              /\ bs_pc' = "entry"
              /\ UNCHANGED bs_result
    /\ UNCHANGED <<bs_args, bs_idx, bs_ops>>
    /\ BS_Frame

\* inherited send_config_set: if enter_config_mode: output +=
\* self.config_mode(*cfg_mode_args); ok is FALSE when config_mode raises
BS_SuperEntry(ok) ==
    /\ bs_pc = "entry"
    /\ IF bs_super.enter_config_mode
         THEN /\ bs_ops' = Append(bs_ops, <<"config_mode",
                                            bs_super.config_mode_command>>)
              /\ IF ok THEN bs_pc' = "cmds" /\ UNCHANGED bs_result
                       ELSE bs_pc' = "done" /\ bs_result' = "ValueError"
         ELSE /\ ok
              /\ bs_pc' = "cmds"
              /\ UNCHANGED <<bs_ops, bs_result>>
    /\ UNCHANGED <<bs_args, bs_super, bs_idx>>
    /\ BS_Frame

\* inherited send_config_set: one command written (and, with cmd_verify,
\* its echo read); ok is FALSE when that read times out
BS_SuperCmd(ok) ==
    /\ bs_pc = "cmds"
    /\ bs_idx <= Len(bs_super.config_commands)
    /\ ~ok => bs_super.cmd_verify
    /\ bs_ops' = bs_ops \o << <<"write", bs_super.config_commands[bs_idx]>> >>
                        \o (IF bs_super.cmd_verify
                              THEN << <<"read", bs_super.config_commands[bs_idx]>> >>
                              ELSE <<>>)
    /\ IF ok
         THEN /\ bs_idx' = bs_idx + 1
              /\ UNCHANGED <<bs_pc, bs_result>>
         ELSE /\ bs_pc' = "done" /\ bs_result' = "NetmikoTimeoutException"
              /\ UNCHANGED bs_idx
    /\ UNCHANGED <<bs_args, bs_super>>
    /\ BS_Frame

\* inherited send_config_set: the read of the timed strategy, then
\* if exit_config_mode: output += self.exit_config_mode(); return output
BS_SuperExit(ok) ==
    /\ bs_pc = "cmds"
    /\ bs_idx > Len(bs_super.config_commands)
    /\ ~ok => bs_super.exit_config_mode
    /\ bs_ops' = bs_ops
                 \o (IF bs_super.cmd_verify THEN <<>> ELSE << <<"read_timing">> >>)
                 \o (IF bs_super.exit_config_mode
                       THEN << <<"exit_config_mode">> >> ELSE <<>>)
    /\ bs_result' = IF ok THEN "return" ELSE "ValueError"
    /\ bs_pc' = "done"
    /\ UNCHANGED <<bs_args, bs_super, bs_idx>>
    /\ BS_Frame

InitBS ==
    /\ FPIdle /\ BPIdle /\ RTIdle /\ ENIdle /\ CFIdle /\ MDIdle /\ KXIdle /\ CCIdle /\ RDIdle /\ BBIdle /\ FOIdle
    /\ CLIdle /\ ALIdle /\ ASIdle /\ SPIdle /\ TLIdle /\ CCIdle /\ RDIdle /\ BBIdle /\ FOIdle
    /\ bs_args \in BsCalls
    /\ bs_super = <<>> /\ bs_pc = "call" /\ bs_idx = 1 /\ bs_ops = <<>>
    /\ bs_result = "none"

NextBS ==
    \/ BS_Call
    \/ \E ok \in BOOLEAN : BS_SuperEntry(ok)
    \/ \E ok \in BOOLEAN : BS_SuperCmd(ok)
    \/ \E ok \in BOOLEAN : BS_SuperExit(ok)

SpecBS == InitBS /\ [][NextBS]_vars

----------------------------------------------------------------------------
(* Properties of AudiocodeBaseSSH.send_config_set *)

\* the channel operations of a returning inherited send_config_set
InheritedOps(a) ==
    (IF a.enter_config_mode
       THEN << <<"config_mode", a.config_mode_command>> >> ELSE <<>>)
    \o Flatten([k \in 1..Len(a.config_commands) |->
                  << <<"write", a.config_commands[k]>> >>
                  \o (IF a.cmd_verify
                        THEN << <<"read", a.config_commands[k]>> >> ELSE <<>>)])
    \o (IF a.cmd_verify THEN <<>> ELSE << <<"read_timing">> >>)
    \o (IF a.exit_config_mode THEN << <<"exit_config_mode">> >> ELSE <<>>)

\* C29: with enter_config_mode true and config_mode_command None the call
\* raises ValueError before any channel write or read; in every other case
\* the inherited send_config_set runs with the arguments of the call.
C29_RefusesWithoutModeCommand ==
    bs_pc # "call" =>
        IF bs_args.enter_config_mode /\ bs_args.config_mode_command = NoCommand
          THEN bs_pc = "done" /\ bs_result = "ValueError" /\ bs_ops = <<>>
                /\ bs_super = <<>>
          ELSE /\ bs_super = bs_args
               /\ bs_result = "return" => bs_ops = InheritedOps(bs_args)

\* a call that asks for mode entry without a mode command was refused before
\* anything was written or read
C29_Witness ==
    /\ bs_pc = "done" /\ bs_result = "ValueError"
    /\ bs_args.enter_config_mode /\ bs_args.config_mode_command = NoCommand
    /\ Len(bs_args.config_commands) = 2 /\ bs_ops = <<>>

----------------------------------------------------------------------------
(* check_config_mode of AudiocodeSSH and of AudiocodeBaseSSH, side by side *)

\* Bound on the length of the texts and of the check strings.
MaxCheckLen == 3

CheckAlphabet == {")", "*", "#"}

\* the texts read and the check strings: every text over the alphabet
CheckTexts == UNION {[1..n -> CheckAlphabet] : n \in 0..MaxCheckLen}
CheckStrings == UNION {[1..n -> CheckAlphabet] : n \in 0..(MaxCheckLen - 1)}

\* self.write_channel(self.RETURN); if not pattern: output =
\* self._read_channel_timing(3) else: output = self.read_until_pattern(
\* pattern=pattern): the channel operations and the text read (TIMEOUT when
\* read_until_pattern raises)
CheckChannel(pattern, text) ==
    IF pattern = <<>>
      THEN [ops |-> <<"write RETURN", "_read_channel_timing(3)">>,
            output |-> text]
      ELSE [ops |-> <<"write RETURN", "read_until_pattern">>,
            output |-> ReadUntilPattern(pattern, text)]

\* one call of AudiocodeSSH.check_config_mode(check_string, pattern)
CC_AudiocodeSSH ==
    /\ cc_ssh = <<>>
    /\ LET ch == CheckChannel(cc_pattern, cc_text) IN
         cc_ssh' = [ops |-> ch.ops,
                    result |-> IF ch.output = TIMEOUT THEN "ReadTimeout"
                               ELSE "return",
                    value |-> IF ch.output = TIMEOUT THEN FALSE
                              ELSE AudiocodeSSH_check(cc_check_string, ch.output)]
    /\ UNCHANGED <<cc_check_string, cc_pattern, cc_text, cc_base>>
    /\ CC_Frame

\* one call of AudiocodeBaseSSH.check_config_mode(check_string, pattern)
CC_AudiocodeBaseSSH ==
    /\ cc_base = <<>>
    /\ LET ch == CheckChannel(cc_pattern, cc_text) IN
         cc_base' = [ops |-> ch.ops,
                     result |-> IF ch.output = TIMEOUT THEN "ReadTimeout"
                                ELSE "return",
                     value |-> IF ch.output = TIMEOUT THEN FALSE
                               ELSE AudiocodeBaseSSH_check(cc_check_string,
                                                           ch.output)]
    /\ UNCHANGED <<cc_check_string, cc_pattern, cc_text, cc_ssh>>
    /\ CC_Frame

InitCC ==
    /\ FPIdle /\ BPIdle /\ RTIdle /\ ENIdle /\ CFIdle /\ MDIdle /\ KXIdle /\ RDIdle /\ BBIdle /\ FOIdle
    /\ CLIdle /\ ALIdle /\ ASIdle /\ SPIdle /\ TLIdle /\ BSIdle /\ RDIdle /\ BBIdle /\ FOIdle
    /\ cc_check_string \in CheckStrings
    /\ cc_pattern \in {<<>>, <<"#">>}
    /\ cc_text \in CheckTexts
    /\ cc_ssh = <<>> /\ cc_base = <<>>

NextCC ==
    \/ CC_AudiocodeSSH
    \/ CC_AudiocodeBaseSSH

SpecCC == InitCC /\ [][NextCC]_vars

----------------------------------------------------------------------------
(* Properties of the two check_config_mode *)

\* C27: for every check_string, pattern and text, the two check_config_mode
\* make the same channel operations (one RETURN written, then a read until
\* the pattern, or a timed read when the pattern is empty) and give the same
\* answer: true exactly when the text read contains check_string or ')*#'.
C27_ChecksEquivalent ==
    (cc_ssh # <<>> /\ cc_base # <<>>) =>
        /\ cc_ssh = cc_base
        /\ cc_ssh.ops[1] = "write RETURN" /\ Len(cc_ssh.ops) = 2
        /\ cc_ssh.ops[2] = (IF cc_pattern = <<>> THEN "_read_channel_timing(3)"
                                                 ELSE "read_until_pattern")
        /\ cc_ssh.result = "return" =>
             (cc_ssh.value <=> (\/ Contains(cc_text, cc_check_string)
                                \/ Contains(cc_text, <<")", "*", "#">>)))

\* both were called on a text that has only the secondary marker and both
\* said yes
C27_Witness ==
    /\ cc_ssh # <<>> /\ cc_base # <<>>
    /\ cc_check_string = <<")", "#">> /\ cc_text = <<")", "*", "#">>
    /\ cc_pattern = <<"#">>
    /\ cc_ssh.value /\ cc_base.value

----------------------------------------------------------------------------
(* AudiocodeSSH.reload_device *)

\* Bound on the number of calls made on one session.
MaxReloadCalls == 3

\* the arguments a caller passes (the defaults and the documented options)
ReloadArgs ==
    [reload_device : BOOLEAN, reload_save : BOOLEAN,
     cmd_save : {"reload now", "reload if-needed"},
     cmd_no_save : {"reload without-saving", "reload without-saving in 5"}]

\* self.enable(): sends the enable command unless already in enable mode
ReloadEnable == IF rd_enabled THEN <<>> ELSE <<"enable">>

\* the branches after self.enable(): what is sent and what is returned
ReloadBody(a) ==
    IF a.reload_device /\ a.reload_save
      THEN [sent |-> <<"enable_window_paging", a.cmd_save>>,
            output |-> a.cmd_save]
    ELSE IF a.reload_device /\ ~a.reload_save
      THEN [sent |-> <<a.cmd_no_save>>, output |-> a.cmd_no_save]
    ELSE [sent |-> <<>>, output |-> "***Reload not performed***"]

\* conn.reload_device(...) while the name still resolves to the method of
\* the class: the four assignments to self, enable(), then the branches
RD_Call(a) ==
    /\ rd_calls < MaxReloadCalls
    /\ rd_attr = "method"
    /\ rd_calls' = rd_calls + 1
    /\ rd_args' = a
    /\ rd_attr' = IF a.reload_device THEN "True" ELSE "False"
    /\ rd_saved' = <<a.reload_save, a.cmd_save, a.cmd_no_save>>
    /\ rd_enabled' = TRUE
    /\ rd_sent' = rd_sent \o ReloadEnable \o ReloadBody(a).sent
    /\ rd_result' = "return"
    /\ rd_output' = ReloadBody(a).output
    /\ RD_Frame

\* conn.reload_device(...) once the instance attribute holds the bool of an
\* earlier call: calling a bool raises TypeError, nothing else happens
RD_CallShadowed(a) ==
    /\ rd_calls < MaxReloadCalls
    /\ rd_attr \in {"True", "False"}
    /\ rd_calls' = rd_calls + 1
    /\ rd_args' = a
    /\ rd_result' = "TypeError"
    /\ rd_output' = "none"
    /\ UNCHANGED <<rd_attr, rd_saved, rd_enabled, rd_sent>>
    /\ RD_Frame

InitRD ==
    /\ FPIdle /\ BPIdle /\ RTIdle /\ ENIdle /\ CFIdle /\ MDIdle /\ KXIdle /\ CLIdle /\ ALIdle /\ ASIdle /\ SPIdle /\ TLIdle /\ BSIdle /\ CCIdle /\ BBIdle /\ FOIdle
    /\ rd_attr = "method" /\ rd_saved = <<>>
    /\ rd_enabled \in BOOLEAN
    /\ rd_calls = 0 /\ rd_args = <<>> /\ rd_sent = <<>>
    /\ rd_result = "none" /\ rd_output = "none"

NextRD ==
    \/ \E a \in ReloadArgs : RD_Call(a)
    \/ \E a \in ReloadArgs : RD_CallShadowed(a)

SpecRD == InitRD /\ [][NextRD]_vars

\* C36: reload_device can be called any number of times on one session:
\* every call runs the method and returns its output (the command's output,
\* or the not-performed text when reload_device is False).
C36_CallableRepeatedly ==
    rd_calls > 0 =>
        /\ rd_result = "return"
        /\ rd_output = ReloadBody(rd_args).output

----------------------------------------------------------------------------
(* BashServer.set_base_prompt *)

\* Bound on the number of calls made on one session.
MaxBashCalls == 2

\* set_base_prompt defaults
bash_pri_prompt_terminator == <<" ", "~", "]", "$">>
bash_alt_prompt_terminator == <<":", "~", ">">>

\* what precedes the terminator in the prompt of a Bash server
BashStems == {<<"u", "@", "h">>, <<"[", "u", "@", "h">>, <<"[", "r", "@", "s">>}

\* how the prompt of a Bash server can end
BashTails ==
    {<<" ", "~", "]", "$">>, <<" ", "~", "]">>, <<" ", "~", "]", "#">>,
     <<"*", " ", "~", "]", "$">>, <<"*", " ", "~", "]">>,
     <<":", "~", ">">>, <<"*", ":", "~", ">">>, <<":", "~", ">", "$">>,
     <<":", "~", ">", " ", "x">>, <<"~", "]", "$">>}

\* what BashServer.find_prompt can return: stripped text that passes its
\* validity test
BashFoundPrompts ==
    {p \in {s \o t : s \in BashStems, t \in BashTails} :
        Strip(p) = p /\ ValidPrompt("BashServer", p)}

\* A terminator interpolated into the regular expression: every character
\* but "$" stands for itself, "$" is the end-of-text anchor.
RegexLiterals(t) == SelectSeq(t, LAMBDA c : c # "$")

\* an anchor in front of a literal character can never be satisfied
RegexSatisfiable(t) ==
    \A i \in 1..Len(t) : t[i] = "$" => \A j \in i..Len(t) : t[j] = "$"

\* the texts one alternative `\*?<terminator>` followed by `$` can match
AlternativeTexts(t) ==
    IF RegexSatisfiable(t)
      THEN {RegexLiterals(t), <<"*">> \o RegexLiterals(t)}
      ELSE {}

\* the texts the pattern rf"(\*?{pri}$|\*?{alt})$" matches at the end
PatternTexts(pri, alt) ==
    AlternativeTexts(pri \o <<"$">>) \cup AlternativeTexts(alt)

\* re.search(pattern, prompt): the leftmost match, which ends the prompt
BashSearch(p, pri, alt) ==
    LET ends == {s \in PatternTexts(pri, alt) : EndsWith(p, s)} IN
      IF ends = {} THEN [found |-> FALSE, len |-> 0]
      ELSE [found |-> TRUE,
            len |-> CHOOSE n \in {Len(s) : s \in ends} :
                       \A s \in ends : Len(s) <= n]

\* the body of set_base_prompt after find_prompt
BashServer_set_base_prompt(p, base) ==
    LET m == BashSearch(p, bash_pri_prompt_terminator,
                        bash_alt_prompt_terminator) IN
      IF ~m.found
        THEN [result |-> "ValueError", base |-> base, ret |-> <<>>]
        ELSE [result |-> "return", base |-> DropLast(p, m.len),
              ret |-> DropLast(p, m.len)]

\* one call of set_base_prompt; find_prompt returned p
BB_SetBasePrompt(p) ==
    /\ bb_calls < MaxBashCalls
    /\ bb_calls' = bb_calls + 1
    /\ bb_prompt' = p
    /\ LET r == BashServer_set_base_prompt(p, bb_base) IN
         /\ bb_result' = r.result
         /\ bb_base' = r.base
         /\ bb_ret' = r.ret
    /\ BB_Frame

InitBB ==
    /\ FPIdle /\ BPIdle /\ RTIdle /\ ENIdle /\ CFIdle /\ MDIdle /\ KXIdle /\ CLIdle /\ ALIdle /\ ASIdle /\ SPIdle /\ TLIdle /\ BSIdle /\ CCIdle /\ RDIdle /\ FOIdle
    /\ bb_calls = 0 /\ bb_prompt = <<>> /\ bb_base = <<>>
    /\ bb_result = "none" /\ bb_ret = <<>>

NextBB == \E p \in BashFoundPrompts : BB_SetBasePrompt(p)

SpecBB == InitBB /\ [][NextBB]_vars

\* the terminator a prompt ends with, if any
BashTerminatorOf(p) ==
    IF EndsWith(p, bash_pri_prompt_terminator) THEN bash_pri_prompt_terminator
    ELSE IF EndsWith(p, bash_alt_prompt_terminator)
      THEN bash_alt_prompt_terminator
    ELSE <<>>

\* the prompt without its trailing terminator and without a "*" in front of it
BashWithoutTerminator(p) ==
    LET q == DropLast(p, Len(BashTerminatorOf(p))) IN
      IF EndsWith(q, <<"*">>) THEN DropLast(q, 1) ELSE q

\* C38: a prompt ending in ' ~]$' or in ':~>' is accepted and base_prompt
\* becomes the prompt without that trailing terminator; ValueError is raised
\* only for prompts that end in neither.
C38_AcceptsBothTerminators ==
    bb_calls > 0 =>
        /\ BashTerminatorOf(bb_prompt) # <<>> =>
              /\ bb_result = "return"
              /\ bb_base = BashWithoutTerminator(bb_prompt)
        /\ bb_result = "ValueError" => BashTerminatorOf(bb_prompt) = <<>>

----------------------------------------------------------------------------
(* FortinetSSH session: session_preparation, disable_paging, cleanup *)

\* FortinetSSH.disable_paging: disable_paging_commands
disable_paging_commands ==
    <<"config global", "config system console", "set output standard", "end",
      "end">>

\* the output modes of the console
OutputModes == {"more", "standard"}

\* The device's reaction to one command line.  A command the device refuses
\* changes nothing; `end` saves what was set in the context it leaves.
FortiDevice(ctx, pending, mode, cmd) ==
    LET top == IF ctx = <<>> THEN "root" ELSE ctx[Len(ctx)] IN
    CASE cmd = "config global" ->
           IF fo_vdom /\ top = "root"
             THEN [ctx |-> <<"global">>, pending |-> pending, mode |-> mode]
             ELSE [ctx |-> ctx, pending |-> pending, mode |-> mode]
      [] cmd = "config system console" ->
           IF fo_perm /\ top = (IF fo_vdom THEN "global" ELSE "root")
             THEN [ctx |-> Append(ctx, "console"), pending |-> mode,
                   mode |-> mode]
             ELSE [ctx |-> ctx, pending |-> pending, mode |-> mode]
      [] cmd = "set output standard" ->
           IF top = "console"
             THEN [ctx |-> ctx, pending |-> "standard", mode |-> mode]
             ELSE [ctx |-> ctx, pending |-> pending, mode |-> mode]
      [] cmd = "set output more" ->
           IF top = "console"
             THEN [ctx |-> ctx, pending |-> "more", mode |-> mode]
             ELSE [ctx |-> ctx, pending |-> pending, mode |-> mode]
      [] cmd = "end" ->
           IF top = "console"
             THEN [ctx |-> SubSeq(ctx, 1, Len(ctx) - 1), pending |-> "none",
                   mode |-> pending]
           ELSE IF top = "global"
             THEN [ctx |-> <<>>, pending |-> pending, mode |-> mode]
           ELSE [ctx |-> ctx, pending |-> pending, mode |-> mode]
      [] OTHER -> [ctx |-> ctx, pending |-> pending, mode |-> mode]

\* the command list the session is sending
FortiPagingCommands ==
    IF fo_pc = "sp_paging" THEN disable_paging_commands
                           ELSE enable_paging_commands

\* session_preparation up to set_base_prompt: the banner is accepted with
\* "a" when the device shows it
FO_Prepare ==
    /\ fo_pc = "new"
    /\ fo_writes' = IF fo_banner THEN <<"a">> ELSE <<>>
    /\ fo_pc' = "sp_paging" /\ fo_idx' = 1
    /\ UNCHANGED <<fo_vdom, fo_perm, fo_banner, fo_mode0, fo_mode, fo_ctx,
                   fo_pending, fo_output_mode>>
    /\ FO_Frame

\* send_config_set(<paging commands>, True, ...): one command written and
\* taken by the device
FO_PagingCmd ==
    /\ fo_pc \in {"sp_paging", "cl_paging"}
    /\ LET cmd == FortiPagingCommands[fo_idx]
           d   == FortiDevice(fo_ctx, fo_pending, fo_mode, cmd) IN
         /\ fo_writes' = Append(fo_writes, cmd)
         /\ fo_ctx' = d.ctx /\ fo_pending' = d.pending /\ fo_mode' = d.mode
    /\ fo_idx' = fo_idx + 1
    /\ fo_pc' = IF fo_idx' <= Len(FortiPagingCommands) THEN fo_pc
                ELSE IF fo_pc = "sp_paging" THEN "sp_exit" ELSE "cl_exit"
    /\ UNCHANGED <<fo_vdom, fo_perm, fo_banner, fo_mode0, fo_output_mode>>
    /\ FO_Frame

\* the exit_config_mode() that ends the send_config_set: `end` is written
\* when the prompt shows a configuration context
FO_PagingExit ==
    /\ fo_pc \in {"sp_exit", "cl_exit"}
    /\ LET d == FortiDevice(fo_ctx, fo_pending, fo_mode, "end") IN
         IF fo_ctx # <<>>
           THEN /\ fo_writes' = Append(fo_writes, "end")
                /\ fo_ctx' = d.ctx /\ fo_pending' = d.pending
                /\ fo_mode' = d.mode
           ELSE UNCHANGED <<fo_writes, fo_ctx, fo_pending, fo_mode>>
    /\ fo_pc' = IF fo_pc = "sp_exit" THEN "ready" ELSE "cl_try"
    /\ UNCHANGED <<fo_vdom, fo_perm, fo_banner, fo_mode0, fo_output_mode,
                   fo_idx>>
    /\ FO_Frame

\* cleanup() is entered: enable_paging_commands are sent next
FO_Cleanup ==
    /\ fo_pc = "ready"
    /\ fo_pc' = "cl_paging" /\ fo_idx' = 1
    /\ UNCHANGED <<fo_vdom, fo_perm, fo_banner, fo_mode0, fo_mode, fo_ctx,
                   fo_pending, fo_output_mode, fo_writes>>
    /\ FO_Frame

\* the rest of cleanup: exit_config_mode() if still in a configuration
\* context, then the final command
FO_Final ==
    /\ fo_pc = "cl_try"
    /\ LET d == FortiDevice(fo_ctx, fo_pending, fo_mode, "end") IN
         IF fo_ctx # <<>>
           THEN /\ fo_writes' = fo_writes \o <<"end", "quit">>
                /\ fo_ctx' = d.ctx /\ fo_pending' = d.pending
                /\ fo_mode' = d.mode
           ELSE /\ fo_writes' = Append(fo_writes, "quit")
                /\ UNCHANGED <<fo_ctx, fo_pending, fo_mode>>
    /\ fo_pc' = "closed"
    /\ UNCHANGED <<fo_vdom, fo_perm, fo_banner, fo_mode0, fo_output_mode,
                   fo_idx>>
    /\ FO_Frame

InitFO ==
    /\ FPIdle /\ BPIdle /\ RTIdle /\ ENIdle /\ CFIdle /\ MDIdle /\ KXIdle /\ CLIdle /\ ALIdle /\ ASIdle /\ SPIdle /\ TLIdle /\ BSIdle /\ CCIdle /\ RDIdle /\ BBIdle
    /\ fo_pc = "new"
    /\ fo_vdom \in BOOLEAN /\ fo_perm \in BOOLEAN /\ fo_banner \in BOOLEAN
    /\ fo_mode0 \in OutputModes /\ fo_mode = fo_mode0
    /\ fo_ctx = <<>> /\ fo_pending = "none"
    /\ fo_output_mode = "unset"
    /\ fo_idx = 0 /\ fo_writes = <<>>

NextFO ==
    \/ FO_Prepare
    \/ FO_PagingCmd
    \/ FO_PagingExit
    \/ FO_Cleanup
    \/ FO_Final

SpecFO == InitFO /\ [][NextFO]_vars

\* C31: the paging state is returned at the end of the session: when the
\* session is closed after session_preparation and cleanup, the console's
\* output mode is the one it had before the session, 'more' or 'standard'.
C31_OutputModeRestored ==
    fo_pc = "closed" => fo_mode = fo_mode0

----------------------------------------------------------------------------
(* Properties of session setup *)

\* C20: setting up a FortinetSSH session leaves unchanged the state other
\* sessions read: the key-exchange preference of the Transport class stays
\* the library's, and the transport of every session of another driver
\* connects with it, under any interleaving.
C20_SessionsShareNoState ==
    /\ Transport_preferred_kex = DefaultKex
    /\ \A s \in KxSessions :
          (kx_driver[s] # "FortinetSSH" /\ kx_pc[s] = "connected")
              => kx_used[s] = DefaultKex

----------------------------------------------------------------------------
(* Properties of the mode probes and transitions *)

\* number of times the call wrote w
WritesOf(w) == Cardinality({k \in 1..Len(md_writes) : md_writes[k] = w})

\* the last call was op and performed its initial check
Completed(op) == md_pc = "idle" /\ md_op = op /\ md_checks # <<>>

\* C15: AudiocodeSSH.config_mode: when the initial check_config_mode is
\* false the configuration command is written exactly once, and the call
\* returns normally only if the check after the write returned true; a false
\* check after the write raises ValueError; when the initial check is true no
\* configuration command is written.
C15_ConfigModeVerified ==
    Completed("config_mode") =>
        /\ md_checks[1] => WritesOf("config_command") = 0 /\ md_result = "return"
        /\ ~md_checks[1] => WritesOf("config_command") = 1
        /\ (md_result = "return" /\ ~md_checks[1])
              => Len(md_checks) = 2 /\ md_checks[2]
        /\ (Len(md_checks) = 2 /\ ~md_checks[2]) => md_result = "ValueError"

\* C15 witness: config_mode found the device outside configuration mode,
\* wrote the command, saw the check succeed and returned.
C15_Witness ==
    /\ Completed("config_mode") /\ md_result = "return"
    /\ md_checks = <<FALSE, TRUE>> /\ md_mode = "config"

\* C16: exit_config_mode: when the initial check_config_mode is true the
\* exit command is written once, and the call returns normally only if the
\* check after it returned false; a true check after it raises ValueError;
\* when the initial check is false only the probe terminator is written and
\* the result is the empty string.
C16_ExitConfigModeVerified ==
    Completed("exit_config_mode") =>
        /\ md_checks[1] => WritesOf("exit_config") = 1
        /\ (md_result = "return" /\ md_checks[1])
              => Len(md_checks) = 2 /\ ~md_checks[2]
        /\ (Len(md_checks) = 2 /\ md_checks[2]) => md_result = "ValueError"
        /\ ~md_checks[1] => /\ md_writes = <<"RETURN">>
                            /\ md_result = "return" /\ md_output = <<>>

\* C16 witness: exit_config_mode found the device in configuration mode,
\* wrote the exit command, saw the check fail and returned.
C16_Witness ==
    /\ Completed("exit_config_mode") /\ md_result = "return"
    /\ md_checks = <<TRUE, FALSE>> /\ md_mode = "priv"

----------------------------------------------------------------------------
(* Properties of send_config_set *)

\* the commands of the batch written so far
CommandsWritten ==
    SelectSeq(cf_writes, LAMBDA w : w \in CfCommands)

\* position of the first occurrence of sub in text at or after from, 0 if none
FirstAt(text, sub, from) ==
    LET P == {i \in from..(Len(text) - Len(sub) + 1) :
                 SubSeq(text, i, i + Len(sub) - 1) = sub}
    IN IF P = {} THEN 0 ELSE CHOOSE i \in P : \A j \in P : i <= j

\* the position after the commands found in text one after the other,
\* starting at from; 0 if one of them is missing
RECURSIVE EchoesEnd(_, _, _)
EchoesEnd(text, cmds, from) ==
    IF cmds = <<>> THEN from
    ELSE LET p == FirstAt(text, Head(cmds), from)
         IN IF p = 0 THEN 0 ELSE EchoesEnd(text, Tail(cmds), p + Len(Head(cmds)))

\* number of exit_config_mode() calls
ExitCalls ==
    Cardinality({k \in 1..Len(cf_writes) : cf_writes[k] = <<"exit_config_mode">>})

\* C11: with cmd_verify true the returned output contains every echoed
\* command in batch order, and after them the mode-exit output, appended by
\* exactly one exit_config_mode call, when exit_config_mode is true; when it
\* is false exit_config_mode is not called and the output ends with the last
\* read of the command loop.
C11_EchoesInOrderThenExit ==
    (cf_result = "return" /\ cf_args.cmd_verify) =>
        LET e == EchoesEnd(cf_output, cf_args.cmds, 1)
            x == Sanitize(cf_exit_out)
        IN /\ e > 0
           /\ IF cf_args.exit
                THEN /\ ExitCalls = 1
                     /\ EndsWith(cf_output, x)
                     /\ e <= Len(cf_output) - Len(x) + 1
                ELSE /\ ExitCalls = 0
                     /\ cf_exit_out = <<>>
                     /\ EndsWith(cf_output, Sanitize(cf_new_output))

\* C11 witness: three commands were echo-verified and the call returned with
\* the output of the mode exit at the end.
C11_Witness ==
    /\ cf_result = "return" /\ cf_args.cmd_verify /\ ~cf_args.fast
    /\ Len(cf_args.cmds) = 3 /\ cf_args.exit /\ cf_exit_out # <<>>
    /\ Len(cf_outs) = 3

\* C12: in every execution called with exit_config_mode true that got past
\* mode entry (a command was written), the mode exit is invoked after the
\* last command written, also when the execution ends with an error-pattern
\* match, a 'Received disconnect' error or a failed read.
C12_AlwaysExitsMode ==
    (cf_pc = "done" /\ cf_args.exit /\ CommandsWritten # <<>>) =>
        cf_writes[Len(cf_writes)] = <<"exit_config_mode">>

\* C13: in an execution that does not abort, whatever the strategy, the
\* channel saw the mode entry (if requested), then the commands of the batch
\* in list order, each exactly once, then the mode exit (if requested).
C13_CommandsInOrderOnce ==
    cf_result = "return" =>
        cf_writes = (IF cf_args.enter THEN << <<"config_mode">> >> ELSE <<>>)
                    \o cf_args.cmds
                    \o (IF cf_args.exit THEN << <<"exit_config_mode">> >> ELSE <<>>)

\* C13 witness: the timed strategy wrote three commands between mode entry
\* and mode exit and returned.
C13_Witness ==
    /\ cf_result = "return" /\ ~cf_args.cmd_verify /\ ~cf_args.fast
    /\ cf_args.enter /\ cf_args.exit /\ Len(cf_args.cmds) = 3
    /\ Len(cf_writes) = 5

\* C14: in the echo-verified strategy, when command k+1 is about to be
\* written the answer to command k has been read through its trailing
\* prompt (nothing of it is left unread), for every command text and every
\* base_prompt.
C14_PromptReadBeforeNextCommand ==
    (cf_pc = "cmds" /\ cf_args.cmd_verify /\ cf_idx > 1
        /\ cf_idx <= Len(cf_args.cmds)) => cf_pending = <<>>

\* C10: with error_pattern set, send_config_set aborts on the first command
\* whose resulting output matches the pattern, raises ConfigInvalidException
\* naming exactly that command, and never writes a later command; output
\* produced before that command (by configuration-mode entry or earlier
\* commands) is never attributed to it.
C10_AbortsOnOffendingCommand ==
    cf_result = "ConfigInvalidException" =>
        \E k \in 1..Len(cf_args.cmds) :
            /\ cf_blamed = cf_args.cmds[k]
            /\ CommandsWritten = SubSeq(cf_args.cmds, 1, k)
            /\ Len(cf_outs) = k
            /\ ErrorSeen(cf_args.error_pattern, cf_outs[k])
            /\ \A j \in 1..(k - 1) : ~ErrorSeen(cf_args.error_pattern, cf_outs[j])

\* C26: AdtranOSBase.send_config_set with cmd_verify false: once the device
\* has answered command k with 'Received disconnect', no later command of the
\* batch is written and the call raises the ValueError of the error pattern.
C26_DisconnectStopsBatch ==
    (/\ cf_pc = "done" /\ cf_args.cls = "AdtranOSBase" /\ ~cf_args.cmd_verify
     /\ cf_outs # <<>>
     /\ Contains(cf_outs[Len(cf_outs)], D_disconnect)) =>
        /\ cf_result = "ValueError"
        /\ CommandsWritten = SubSeq(cf_args.cmds, 1, Len(cf_outs))

\* C30: given a single command string s, send_config_set iterates over the
\* one-element batch (s,), as it does when given [s]: every command it
\* writes is s itself, never one of its characters, a returning call wrote s
\* exactly once and its output holds the answer to s.
C30_StringIsOneCommand ==
    cf_args.given.kind = "str" =>
        /\ cf_args.cmds = NormalizeCommands([kind |-> "list",
                                             val |-> <<cf_args.given.val>>])
        /\ \A k \in 1..Len(cf_writes) :
              cf_writes[k] \in {cf_args.given.val, <<"config_mode">>,
                                <<"exit_config_mode">>}
        /\ cf_result = "return" =>
              /\ CommandsWritten = <<cf_args.given.val>>
              /\ Len(cf_outs) = 1
              /\ Contains(cf_output, cf_args.given.val)

\* C30 witness: a call given the string 'set a' wrote it once, between mode
\* entry and mode exit, and returned
C30_Witness ==
    /\ cf_result = "return" /\ cf_args.given = [kind |-> "str", val |-> C_a]
    /\ cf_writes = << <<"config_mode">>, C_a, <<"exit_config_mode">> >>
    /\ cf_args.cls = "AdtranOSBase" /\ ~cf_args.cmd_verify /\ ~cf_args.fast

----------------------------------------------------------------------------
(* Properties of enable *)

\* number of times the secret was written
SecretWrites == Cardinality({k \in 1..Len(en_writes) : en_writes[k] = "secret"})

\* C6: whenever the read that follows the first secret ends on text matching
\* the password-prompt pattern under re_flags ('Password: ' or 'PASSWORD:'),
\* the secret is written exactly once more; the secret is written at most
\* twice; with 'Password: ', 'Password: ', 'device#' the total is 2 and the
\* call returns with check_enable_mode true.
C6_SecondPromptResendsSecret ==
    /\ SecretWrites <= 2
    /\ (Len(en_reads) >= 2 /\ SearchIgnoreCase(en_reads[2], en_pattern))
          => SecretWrites = 2
    /\ (en_pc = "done" /\ en_reads = <<R_password, R_password, R_priv>>
          /\ en_checks = <<FALSE, TRUE>>)
          => SecretWrites = 2 /\ en_result = "return"

\* C7: the secret is written only after a read whose text showed the
\* password prompt; when the enable command is answered directly by the
\* privileged prompt the secret is never written.
C7_SecretOnlyAfterPasswordPrompt ==
    SecretWrites >= 1 => SearchIgnoreCase(en_reads[1], en_pattern)

\* C8: a transport timeout raised by any channel read during enable,
\* including the initial and the final check_enable_mode probes, is surfaced
\* as the enable-mode failure (ValueError), never as the raw timeout.
C8_TimeoutBecomesEnableFailure ==
    en_result # "NetmikoTimeoutException"

\* C9: enable returns normally only if the last check_enable_mode it
\* performed returned true; if the probe after the exchange is false the
\* call fails with the enable-mode failure.
C9_ReturnOnlyWhenChecked ==
    /\ en_result = "return" =>
          Len(en_checks) >= 1 /\ en_checks[Len(en_checks)] = TRUE
    /\ (en_pc = "done" /\ Len(en_checks) = 2 /\ en_checks[2] = FALSE)
          => en_result = "ValueError"

\* C9 witness: the call returned after the password exchange and a second,
\* successful probe.
C9_Witness ==
    /\ en_result = "return" /\ en_checks = <<FALSE, TRUE>>
    /\ SecretWrites >= 1

----------------------------------------------------------------------------
(* Properties of _read_channel_timing_or_error *)

\* the two most recent reads both came back empty
LastTwoEmpty ==
    /\ Len(rt_log) >= 2
    /\ rt_log[Len(rt_log)] = <<>> /\ rt_log[Len(rt_log) - 1] = <<>>

\* the call was made with a pattern that has not matched
PatternNeverMatched ==
    rt_pattern = P_disconnect /\ ~Contains(Flatten(rt_log), rt_pattern)

\* C5: with a pattern that never matches, the call returns exactly
\* once no-data is observed twice in a row, and every non-empty read is
\* appended, in order, to the returned text.
C5_ReturnsExactlyOnDoubleEmpty ==
    PatternNeverMatched =>
        /\ rt_result = "return" <=> LastTwoEmpty
        /\ channel_data = Flatten(rt_log)

\* C18: when the loop budget is used up without two empty reads in a row,
\* the call fails; it does not return the partial text as if the read had
\* completed.
C18_ExhaustionFails ==
    (rt_pc = "done" /\ rt_i > rt_max_loops /\ ~LastTwoEmpty)
        => rt_result # "return"

\* all reads of the call but the most recent one
EarlierReads == SubSeq(rt_log, 1, Len(rt_log) - 1)

\* C19: with the pattern 'Received disconnect', the call raises ValueError
\* exactly when the text read so far contains the pattern, on the very read
\* that completes it (the earlier reads do not contain it, and no read
\* follows), also when the pattern arrives split across two reads.
C19_RaisesAsSoonAsPatternSeen ==
    rt_pattern = P_disconnect =>
        /\ rt_result = "ValueError" <=> Contains(Flatten(rt_log), rt_pattern)
        /\ rt_result = "ValueError" =>
              /\ rt_pc = "done"
              /\ ~Contains(Flatten(EarlierReads), rt_pattern)
        /\ (Len(rt_log) >= 2 /\ SubSeq(rt_log, Len(rt_log) - 1, Len(rt_log))
                                   = <<D_disc1, D_disc2>>)
              => rt_result = "ValueError"

\* C19 witness: the pattern arrived in two pieces after ordinary output and
\* the call raised on the second piece.
C19_Witness ==
    /\ rt_pattern = P_disconnect /\ rt_result = "ValueError"
    /\ rt_log = <<D_ok, D_disc1, D_disc2>>

\* C35: with the default pattern "" the call is a plain quiescence read:
\* it never raises the error-pattern ValueError, and when it ends it returns
\* the text of all reads.
C35_DefaultPatternNeverRaises ==
    rt_pattern = P_default =>
        /\ rt_result # "ValueError"
        /\ rt_pc = "done" => (rt_result = "return"
                                 /\ channel_data = Flatten(rt_log))

----------------------------------------------------------------------------
(* Properties of set_base_prompt *)

\* the prompt with exactly its trailing terminator removed
WithoutTerminator(p) ==
    IF EndsWith(p, <<"*", ">">>) \/ EndsWith(p, <<"*", "#">>)
        THEN SubSeq(p, 1, Len(p) - 2)
        ELSE SubSeq(p, 1, Len(p) - 1)

\* C4: AudiocodeSSH.set_base_prompt and AudiocodeBaseSSH.set_base_prompt set
\* base_prompt to the found prompt with exactly its trailing terminator
\* removed: one character for '>' or '#', two only for '*>' or '*#'
\* ('hostname#' gives 'hostname').
C4_BasePromptStripsTerminator ==
    bp_result = "return" =>
        /\ base_prompt = WithoutTerminator(bp_prompt)
        /\ bp_prompt = T_hostname => base_prompt = DropLast(T_hostname, 1)

----------------------------------------------------------------------------
(* Properties of find_prompt *)

FP_Returned == fp_pc = "done" /\ fp_result = "return"

\* the negative markers the drivers' comments name
NegativeMarkers(d) ==
    CASE d = "AdtranOSBase" -> {M_Failure, M_config}
      [] d = "CiscoAsaSSH"  -> {M_config}
      [] d = "FortinetSSH"  -> {M_fortih, M_fortid}
      [] OTHER -> {}

\* C1: for AdtranOSBase, CiscoAsaSSH and FortinetSSH, find_prompt never
\* returns a string that contains one of the driver's negative markers.
C1_NoNegativeMarkerReturned ==
    FP_Returned => \A m \in NegativeMarkers(driver) : ~Contains(prompt, m)

\* the terminator characters of each driver's validity test
HasTerminator(d, p) ==
    CASE d \in {"AdtranOSBase", "AudiocodeBaseSSH", "CiscoAsaSSH"} ->
            Contains(p, <<"#">>) \/ Contains(p, <<">">>)
      [] d = "AudiocodeShellSSH" -> Contains(p, <<"/", ">">>)
      [] d = "BashServer" -> Contains(p, <<"~", "]">>) \/ Contains(p, <<"~", ">">>)
      [] d = "FortinetSSH" -> Contains(p, <<"#">>) \/ Contains(p, <<"$">>)

\* C2: in every driver, find_prompt never returns a candidate that failed the
\* validity test (contains a terminator); when the outer loop is exhausted
\* without such a candidate the call ends with the 'Unable to find prompt'
\* ValueError.
C2_ExhaustionRaises ==
    fp_pc = "done" =>
        /\ fp_result = "return" => HasTerminator(driver, prompt)
        /\ ~HasTerminator(driver, prompt) => fp_result = "ValueError"

IsLineBreak(c) == c \in {"\n", "\r"}

\* p is the whitespace-stripped last line of text r: p has no line break and
\* no surrounding whitespace, it occurs in r followed by whitespace only,
\* and between it and the closest line break before it (or the start of r)
\* there is whitespace only.
IsLastLineOf(p, r) ==
    /\ p # <<>>
    /\ \A k \in 1..Len(p) : ~IsLineBreak(p[k])
    /\ ~IsSpace(p[1]) /\ ~IsSpace(p[Len(p)])
    /\ \E k \in 0..(Len(r) - Len(p)) :
          /\ SubSeq(r, k + 1, k + Len(p)) = p
          /\ \A m \in (k + Len(p) + 1)..Len(r) : IsSpace(r[m])
          /\ \E j \in 0..k :
                /\ j = 0 \/ IsLineBreak(r[j])
                /\ \A m \in (j + 1)..k : IsSpace(r[m])

\* C3: find_prompt returns only the last line, whitespace-stripped, of the
\* text read in the accepting iteration; for the channel text
\* "\r\n" + "leading noise\r\n" + "hostname#" it returns "hostname#".
C3_ReturnsLastLineOnly ==
    FP_Returned =>
        /\ IsLastLineOf(prompt, raw)
        /\ raw = T_example => prompt = T_hostname

\* C3 witness: a driver accepted the three-line example text.
C3_Witness ==
    /\ FP_Returned /\ driver = "AdtranOSBase"
    /\ raw = T_example /\ prompt = T_hostname

\* C32: every driver's find_prompt has the same outer cap of 20: it never
\* makes more than 20 validated outer iterations, it gives up without a valid
\* prompt only when those 20 iterations went by, and a valid prompt read in
\* one of them is returned.
C32_OuterCapTwenty ==
    /\ loops <= 20
    /\ (fp_pc = "done"
           /\ ~(fp_result = "return" /\ ValidPrompt(driver, prompt))) => loops = 20
    /\ (fp_pc = "after" /\ loops < 20) => ValidPrompt(driver, prompt)

\* C33: within one outer iteration the inner retry makes at most 12
\* attempts: the channel is re-read at most 12 times and the line terminator
\* is resent at most 12 times.
C33_InnerRetryTwelve == innerReads <= 12 /\ innerWrites <= 12

\* C34: the sleep interval (in tenths of a time-unit) is doubled only up to
\* the ceiling of 3 time-units, so no interval produced by doubling is above
\* 30 tenths, and once the ceiling is reached it grows by exactly 10 tenths
\* per empty attempt.
C34_BackoffCeiling ==
    [][/\ (sleep_time' # sleep_time /\ sleep_time' = 2 * sleep_time) =>
             sleep_time' <= 30
       /\ (sleep_time' # sleep_time /\ sleep_time >= 30) =>
             sleep_time' = sleep_time + 10]_vars

====
